---------------------------- MODULE Spec2Model ----------------------------
(***************************************************************************)
(* A model of the HomeMatic XML-API client (mheers/homematic-xml-client-go).*)
(*                                                                         *)
(* The repository holds two packages named homematic:                      *)
(*   - src/unnamed/part_001: the client with encoding normalisation        *)
(*     (convertToUTF8, charsetReader, makeRawRequest) and one response     *)
(*     schema per operation; its definitions keep the source's names;      *)
(*   - src/homematic/main.go: the client that decodes every response       *)
(*     against APIResponse; its definitions carry the suffix _hm.          *)
(*                                                                         *)
(* Strings that the code inspects byte by byte (response bodies, argument  *)
(* strings, query values) are sequences of bytes 0..255.  Error messages   *)
(* are sequences of words.                                                 *)
(***************************************************************************)
EXTENDS Integers, Sequences, FiniteSets, TLC

VARIABLES
    client,     \* the Client: [pkg, BaseURL, Token], fixed by NewClient
    pc,         \* "idle" | "done": the caller's position around one call
    call,       \* the operation called last and its arguments
    out,        \* what that call did: requests issued, error, value
    cin,        \* convertToUTF8 on its own: the input bytes
    cout,       \* convertToUTF8 on its own: the returned (bytes, error)
    cpc,        \* convertToUTF8 on its own: "input" | "returned"
    calls       \* concurrent callers of one Client: per goroutine its
                \* position, call, the Client fields it read, and outcome

vars == <<client, pc, call, out, cin, cout, cpc, calls>>

---------------------------------------------------------------------------
(* Byte strings of the source's string literals.                           *)

s_ISO_8859_1 == <<73, 83, 79, 45, 56, 56, 53, 57, 45, 49>>      \* "ISO-8859-1"
s_iso_8859_1 == <<105, 115, 111, 45, 56, 56, 53, 57, 45, 49>>   \* "iso-8859-1"
s_Iso_8859_1 == <<73, 115, 111, 45, 56, 56, 53, 57, 45, 49>>    \* "Iso-8859-1"
s_UTF_8 == <<85, 84, 70, 45, 56>>                               \* "UTF-8"
s_utf_8 == <<117, 116, 102, 45, 56>>                            \* "utf-8"
s_latin1 == <<108, 97, 116, 105, 110, 49>>                      \* "latin1"
s_LATIN1 == <<76, 65, 84, 73, 78, 49>>                          \* "LATIN1"
s_windows_1252 == <<119, 105, 110, 100, 111, 119, 115, 45, 49, 50, 53, 50>> \* "windows-1252"
s_cp1252 == <<99, 112, 49, 50, 53, 50>>                         \* "cp1252"
s_koi8_r == <<107, 111, 105, 56, 45, 114>>                      \* "koi8-r"

Nil == <<>>     \* the nil error: a message of no words

---------------------------------------------------------------------------
(* Go's strings and unicode/utf8 functions that convertToUTF8 calls,       *)
(* computed on bytes as the library computes them.                         *)

Min(S) == CHOOSE x \in S : \A y \in S : x <= y

\* part_001:243 min
min(a, b) == IF a < b THEN a ELSE b

\* pat occurs in s at index i
HasAt(s, i, pat) ==
    /\ i >= 1
    /\ i + Len(pat) - 1 <= Len(s)
    /\ \A k \in 1..Len(pat) : s[i + k - 1] = pat[k]

\* strings.Index from position `from`: the first index >= from, or 0
IndexFrom(s, from, pat) ==
    LET S == {i \in from..(Len(s) - Len(pat) + 1) : HasAt(s, i, pat)}
    IN  IF S = {} THEN 0 ELSE Min(S)

\* strings.Contains
Contains(s, pat) == \E i \in 1..(Len(s) - Len(pat) + 1) : HasAt(s, i, pat)

\* strings.ToLower.  The byte alphabet of the model holds no letter outside
\* ASCII, and bytes that are not ASCII letters never become ASCII, so the
\* ASCII substrings of the result are those of the bytewise lowering.
ToLower(s) == [i \in 1..Len(s) |-> IF s[i] \in 65..90 THEN s[i] + 32 ELSE s[i]]

\* strings.EqualFold on ASCII
EqualFold(a, b) == ToLower(a) = ToLower(b)

\* strings.ReplaceAll for a non-empty old: left to right, non-overlapping
RECURSIVE ReplaceAll(_, _, _)
ReplaceAll(s, old, new) ==
    LET i == IndexFrom(s, 1, old)
    IN  IF i = 0 THEN s
        ELSE SubSeq(s, 1, i - 1) \o new
             \o ReplaceAll(SubSeq(s, i + Len(old), Len(s)), old, new)

IsCont(s, i) == i <= Len(s) /\ s[i] \in 128..191

\* The length of the well-formed UTF-8 sequence that starts at s[i], 0 when
\* none does (unicode/utf8: no overlong forms, no surrogates, <= U+10FFFF).
RuneLen(s, i) ==
    LET b == s[i] IN
    IF b < 128 THEN 1
    ELSE IF b \in 194..223 THEN (IF IsCont(s, i + 1) THEN 2 ELSE 0)
    ELSE IF b = 224
         THEN (IF i + 1 <= Len(s) /\ s[i + 1] \in 160..191 /\ IsCont(s, i + 2)
               THEN 3 ELSE 0)
    ELSE IF b \in (225..236) \cup {238, 239}
         THEN (IF IsCont(s, i + 1) /\ IsCont(s, i + 2) THEN 3 ELSE 0)
    ELSE IF b = 237
         THEN (IF i + 1 <= Len(s) /\ s[i + 1] \in 128..159 /\ IsCont(s, i + 2)
               THEN 3 ELSE 0)
    ELSE IF b = 240
         THEN (IF i + 1 <= Len(s) /\ s[i + 1] \in 144..191
                  /\ IsCont(s, i + 2) /\ IsCont(s, i + 3) THEN 4 ELSE 0)
    ELSE IF b \in 241..243
         THEN (IF IsCont(s, i + 1) /\ IsCont(s, i + 2) /\ IsCont(s, i + 3)
               THEN 4 ELSE 0)
    ELSE IF b = 244
         THEN (IF i + 1 <= Len(s) /\ s[i + 1] \in 128..143
                  /\ IsCont(s, i + 2) /\ IsCont(s, i + 3) THEN 4 ELSE 0)
    ELSE 0

\* the first index >= i of a byte that is not ASCII, 0 when there is none
NextNonASCII(s, i) ==
    LET S == {j \in i..Len(s) : s[j] >= 128}
    IN  IF S = {} THEN 0 ELSE Min(S)

\* utf8.Valid from index i: runs of ASCII bytes are stepped over at once
RECURSIVE ValidFrom(_, _)
ValidFrom(s, i) ==
    LET j == NextNonASCII(s, i) IN
    IF j = 0 THEN TRUE
    ELSE LET n == RuneLen(s, j) IN n > 0 /\ ValidFrom(s, j + n)

\* utf8.Valid
utf8Valid(s) == ValidFrom(s, 1)

\* utf8.EncodeRune for runes below U+10000
EncodeRune(r) ==
    IF r < 128 THEN <<r>>
    ELSE IF r < 2048 THEN <<192 + (r \div 64), 128 + (r % 64)>>
    ELSE <<224 + (r \div 4096), 128 + ((r \div 64) % 64), 128 + (r % 64)>>

\* charmap.ISO8859_1: byte b is the rune U+00b
ISO8859_1_Rune(b) == b

\* charmap.Windows1252: as ISO-8859-1 outside 0x80..0x9F; of that range the
\* byte alphabet of the model holds 0x80 only, the euro sign U+20AC.
Windows1252_Rune(b) == IF b = 128 THEN 8364 ELSE b

\* The decoders copy a run of ASCII bytes as it is (both character maps are
\* ASCII below 0x80) and encode each other byte's rune.
RECURSIVE ISO8859_1_From(_, _)
ISO8859_1_From(s, i) ==
    LET j == NextNonASCII(s, i) IN
    IF j = 0 THEN SubSeq(s, i, Len(s))
    ELSE SubSeq(s, i, j - 1) \o EncodeRune(ISO8859_1_Rune(s[j]))
         \o ISO8859_1_From(s, j + 1)

RECURSIVE Windows1252_From(_, _)
Windows1252_From(s, i) ==
    LET j == NextNonASCII(s, i) IN
    IF j = 0 THEN SubSeq(s, i, Len(s))
    ELSE SubSeq(s, i, j - 1) \o EncodeRune(Windows1252_Rune(s[j]))
         \o Windows1252_From(s, j + 1)

\* charmap.ISO8859_1.NewDecoder().Bytes: never fails, every byte is a rune
ISO8859_1_Bytes(s) == [bytes |-> ISO8859_1_From(s, 1), err |-> Nil]

---------------------------------------------------------------------------
(* part_001:217 convertToUTF8                                              *)

\* the length of the prefix searched for an encoding name (part_001:224)
SniffLen == 200

\* variants of convertToUTF8 that each differ from the source in one step
convertToUTF8_NoValidCheck(data) ==
    LET xmlDecl == SubSeq(data, 1, min(Len(data), SniffLen)) IN
    IF \/ Contains(ToLower(xmlDecl), s_iso_8859_1)
       \/ Contains(ToLower(xmlDecl), s_latin1)
    THEN [data |-> ReplaceAll(ReplaceAll(ISO8859_1_Bytes(data).bytes,
                                         s_ISO_8859_1, s_UTF_8),
                              s_iso_8859_1, s_utf_8),
          err |-> Nil]
    ELSE [data |-> data, err |-> Nil]

convertToUTF8_NoTranscode(data) == [data |-> data, err |-> Nil]

convertToUTF8(data) ==
    IF utf8Valid(data) THEN [data |-> data, err |-> Nil]
    ELSE
      LET xmlDecl == SubSeq(data, 1, min(Len(data), SniffLen)) IN
      IF \/ Contains(ToLower(xmlDecl), s_iso_8859_1)
         \/ Contains(ToLower(xmlDecl), s_latin1)
      THEN LET dec == ISO8859_1_Bytes(data) IN
           IF dec.err # Nil
           THEN [data |-> <<>>,
                 err |-> <<"failed", "to", "convert", "from", "ISO-8859-1", ":", "%w">>]
           ELSE LET utf8String == ReplaceAll(
                        ReplaceAll(dec.bytes, s_ISO_8859_1, s_UTF_8),
                        s_iso_8859_1, s_utf_8)
                IN  [data |-> utf8String, err |-> Nil]
      ELSE [data |-> data, err |-> Nil]

---------------------------------------------------------------------------
(* The element and attribute names of the response schemas                 *)
(* (part_001:44-202, main.go:32-142).                                      *)

s_deviceList == <<100, 101, 118, 105, 99, 101, 76, 105, 115, 116>>   \* "deviceList"
s_stateList == <<115, 116, 97, 116, 101, 76, 105, 115, 116>>   \* "stateList"
s_programList == <<112, 114, 111, 103, 114, 97, 109, 76, 105, 115, 116>>   \* "programList"
s_roomList == <<114, 111, 111, 109, 76, 105, 115, 116>>   \* "roomList"
s_functionList == <<102, 117, 110, 99, 116, 105, 111, 110, 76, 105, 115, 116>>   \* "functionList"
s_systemVariables == <<115, 121, 115, 116, 101, 109, 86, 97, 114, 105, 97, 98, 108, 101, 115>>   \* "systemVariables"
s_deviceTypes == <<100, 101, 118, 105, 99, 101, 84, 121, 112, 101, 115>>   \* "deviceTypes"
s_result == <<114, 101, 115, 117, 108, 116>>   \* "result"
s_version == <<118, 101, 114, 115, 105, 111, 110>>   \* "version"
s_device == <<100, 101, 118, 105, 99, 101>>   \* "device"
s_program == <<112, 114, 111, 103, 114, 97, 109>>   \* "program"
s_room == <<114, 111, 111, 109>>   \* "room"
s_function == <<102, 117, 110, 99, 116, 105, 111, 110>>   \* "function"
s_systemVariable == <<115, 121, 115, 116, 101, 109, 86, 97, 114, 105, 97, 98, 108, 101>>   \* "systemVariable"
s_deviceType == <<100, 101, 118, 105, 99, 101, 84, 121, 112, 101>>   \* "deviceType"
s_name == <<110, 97, 109, 101>>   \* "name"
s_ise_id == <<105, 115, 101, 95, 105, 100>>   \* "ise_id"
s_id == <<105, 100>>   \* "id"

---------------------------------------------------------------------------
(* part_001:205 charsetReader                                              *)

\* charsetReader(charset, input): what reading through the returned
\* transform.NewReader(input, decoder) yields, or the error
charsetReader_AnyAsLatin1(charset, input) ==
    IF ToLower(charset) \in {s_windows_1252, s_cp1252}
    THEN [r |-> Windows1252_From(input, 1), err |-> Nil]
    ELSE [r |-> ISO8859_1_From(input, 1), err |-> Nil]

charsetReader(charset, input) ==
    IF ToLower(charset) \in {s_iso_8859_1, s_latin1}
    THEN [r |-> ISO8859_1_From(input, 1), err |-> Nil]
    ELSE IF ToLower(charset) \in {s_windows_1252, s_cp1252}
    THEN [r |-> Windows1252_From(input, 1), err |-> Nil]
    ELSE [r |-> <<>>, err |-> <<"unsupported", "charset", ":", "%s">>]

---------------------------------------------------------------------------
(* encoding/xml: the Decoder on the documents of the model.  The bodies    *)
(* hold elements, attributes, character data and processing instructions;  *)
(* they hold no comment, CDATA section, directive, entity or namespace.    *)

s_xml == <<120, 109, 108>>                                      \* "xml"
s_encoding_eq == <<101, 110, 99, 111, 100, 105, 110, 103, 61>>  \* "encoding="
s_version_eq == <<118, 101, 114, 115, 105, 111, 110, 61>>       \* "version="
s_1_0 == <<49, 46, 48>>                                         \* "1.0"

WS == {32, 9, 10, 13}
NameBytes == (65..90) \cup (97..122) \cup (48..57) \cup {95, 58, 46, 45}

\* the first index >= i of a byte outside (resp. inside) Set, Len(s)+1 if none
NextNotIn(s, i, Set) ==
    LET S == {j \in i..Len(s) : s[j] \notin Set}
    IN  IF S = {} THEN Len(s) + 1 ELSE Min(S)
NextIn(s, i, Set) ==
    LET S == {j \in i..Len(s) : s[j] \in Set}
    IN  IF S = {} THEN Len(s) + 1 ELSE Min(S)

\* xml.procInst: the quoted value that follows the first `param` in s, or ""
procInst(param, s) ==
    LET idx == IndexFrom(s, 1, param) IN
    IF idx = 0 THEN <<>>
    ELSE LET v == idx + Len(param) IN
         IF v > Len(s) \/ s[v] \notin {34, 39} THEN <<>>
         ELSE LET e == NextIn(s, v + 1, {s[v]}) IN
              IF e > Len(s) THEN <<>> ELSE SubSeq(s, v + 1, e - 1)

Tok(k, name, data, attrs, empty, next) ==
    [k |-> k, name |-> name, data |-> data, attrs |-> attrs,
     empty |-> empty, next |-> next]
TokError == Tok("error", <<>>, <<>>, <<>>, FALSE, 0)

\* the attributes of a start tag from index i on, up to its > or />
RECURSIVE Attrs(_, _)
Attrs(s, i) ==
    LET j1 == NextNotIn(s, i, WS) IN
    IF j1 > Len(s) THEN [ok |-> FALSE, attrs |-> <<>>, empty |-> FALSE, next |-> 0]
    ELSE IF s[j1] = 47
    THEN [ok |-> j1 + 1 <= Len(s) /\ s[j1 + 1] = 62, attrs |-> <<>>,
          empty |-> TRUE, next |-> j1 + 2]
    ELSE IF s[j1] = 62
    THEN [ok |-> TRUE, attrs |-> <<>>, empty |-> FALSE, next |-> j1 + 1]
    ELSE
      LET a2 == NextNotIn(s, j1, NameBytes)
          a3 == NextNotIn(s, a2, WS)
          a4 == NextNotIn(s, a3 + 1, WS)
          a5 == NextIn(s, a4 + 1, {s[a4], 60})
          val == SubSeq(s, a4 + 1, a5 - 1)
      IN  IF \/ a2 = j1
             \/ a3 > Len(s) \/ s[a3] # 61
             \/ a4 > Len(s) \/ s[a4] \notin {34, 39}
             \/ a5 > Len(s) \/ s[a5] = 60
             \/ ~utf8Valid(val)
          THEN [ok |-> FALSE, attrs |-> <<>>, empty |-> FALSE, next |-> 0]
          ELSE LET rest == Attrs(s, a5 + 1) IN
               [rest EXCEPT !.attrs = <<<<SubSeq(s, j1, a2 - 1), val>>>> \o @]

\* Decoder.rawToken at index i
RawToken(s, i) ==
    IF i > Len(s) THEN Tok("eof", <<>>, <<>>, <<>>, FALSE, i)
    ELSE IF s[i] # 60
    THEN LET j == NextIn(s, i, {60})
             data == SubSeq(s, i, j - 1)
         IN  IF utf8Valid(data) THEN Tok("text", <<>>, data, <<>>, FALSE, j)
             ELSE TokError
    ELSE IF i + 1 > Len(s) THEN TokError
    ELSE IF s[i + 1] = 47
    THEN LET n2 == NextNotIn(s, i + 2, NameBytes)
             n3 == NextNotIn(s, n2, WS)
         IN  IF n2 = i + 2 \/ n3 > Len(s) \/ s[n3] # 62 THEN TokError
             ELSE Tok("end", SubSeq(s, i + 2, n2 - 1), <<>>, <<>>, FALSE, n3 + 1)
    ELSE IF s[i + 1] = 63
    THEN LET n2 == NextNotIn(s, i + 2, NameBytes)
             n3 == NextNotIn(s, n2, WS)
             e == IndexFrom(s, n3, <<63, 62>>)
         IN  IF n2 = i + 2 \/ e = 0 THEN TokError
             ELSE Tok("procinst", SubSeq(s, i + 2, n2 - 1),
                      SubSeq(s, n3, e - 1), <<>>, FALSE, e + 2)
    ELSE IF s[i + 1] = 33 THEN TokError
    ELSE LET n2 == NextNotIn(s, i + 1, NameBytes) IN
         IF n2 = i + 1 THEN TokError
         ELSE LET a == Attrs(s, n2) IN
              IF ~a.ok THEN TokError
              ELSE Tok("start", SubSeq(s, i + 1, n2 - 1), <<>>, a.attrs,
                       a.empty, a.next)

\* rawToken's handling of <?xml ...?>: the version must be 1.0; a declared
\* encoding other than UTF-8 goes to the Decoder's CharsetReader (none when
\* useCharsetReader is FALSE), whose reader replaces the rest of the input.
XmlDecl(s, tok, useCharsetReader) ==
    LET ver == procInst(s_version_eq, tok.data)
        enc == procInst(s_encoding_eq, tok.data)
    IN  IF tok.name # s_xml THEN [ok |-> TRUE, s |-> s, csr |-> <<>>]
        ELSE IF ver # <<>> /\ ver # s_1_0 THEN [ok |-> FALSE, s |-> s, csr |-> <<>>]
        ELSE IF enc = <<>> \/ EqualFold(enc, s_utf_8)
        THEN [ok |-> TRUE, s |-> s, csr |-> <<>>]
        ELSE IF ~useCharsetReader THEN [ok |-> FALSE, s |-> s, csr |-> <<>>]
        ELSE IF charsetReader(enc, SubSeq(s, tok.next, Len(s))).err # Nil
        THEN [ok |-> FALSE, s |-> s, csr |-> <<enc>>]
        ELSE [ok |-> TRUE,
              s |-> SubSeq(s, 1, tok.next - 1)
                    \o charsetReader(enc, SubSeq(s, tok.next, Len(s))).r,
              csr |-> <<enc>>]

\* what a decode yields: ok, the root's name, attributes and character
\* data, its child elements in order, and the charsets handed to the
\* CharsetReader
Doc(ok, root, text, kids, csr) ==
    [ok |-> ok, root |-> root, text |-> text, kids |-> kids, csr |-> csr]
DocError(csr) == Doc(FALSE, <<>>, <<>>, <<>>, csr)

\* The tokens from index i inside the root element: `stack` holds the open
\* elements (Decoder.Token's push and popElement); the children of the
\* root are collected with their attributes and character data.
RECURSIVE Children(_, _, _, _, _)

\* after a <?xml ...?> inside the root, x being XmlDecl's answer to it
ChildrenDecl(x, next, stack, d, useCharsetReader) ==
    IF ~x.ok THEN DocError(d.csr \o x.csr)
    ELSE Children(x.s, next, stack, [d EXCEPT !.csr = @ \o x.csr], useCharsetReader)

\* the token tok read inside the root
ChildrenTok(s, tok, stack, d, useCharsetReader) ==
    IF tok.k \in {"eof", "error"} THEN DocError(d.csr)
    ELSE IF tok.k = "text"
    THEN Children(s, tok.next, stack,
             IF Len(stack) = 1 THEN [d EXCEPT !.text = @ \o tok.data]
             ELSE IF Len(stack) = 2
             THEN [d EXCEPT !.kids[Len(d.kids)].text = @ \o tok.data]
             ELSE d,
             useCharsetReader)
    ELSE IF tok.k = "procinst"
    THEN ChildrenDecl(XmlDecl(s, tok, useCharsetReader), tok.next, stack, d,
                      useCharsetReader)
    ELSE IF tok.k = "start"
    THEN Children(s, tok.next,
                  IF tok.empty THEN stack ELSE Append(stack, tok.name),
                  IF Len(stack) = 1
                  THEN [d EXCEPT !.kids = Append(@,
                           [name |-> tok.name, attrs |-> tok.attrs, text |-> <<>>])]
                  ELSE d,
                  useCharsetReader)
    ELSE \* an end tag
         IF tok.name # stack[Len(stack)] THEN DocError(d.csr)
         ELSE IF Len(stack) = 1 THEN d
         ELSE Children(s, tok.next, SubSeq(stack, 1, Len(stack) - 1), d,
                       useCharsetReader)

Children(s, i, stack, d, useCharsetReader) ==
    ChildrenTok(s, RawToken(s, i), stack, d, useCharsetReader)

\* Decoder.Decode into a struct whose XMLName is `root`: the tokens up to
\* the first start element, which must be named `root`, then its content
\* up to its end tag; what follows the root element is never read.
RECURSIVE Unmarshal(_, _, _, _, _)

\* after a <?xml ...?> in front of the root, x being XmlDecl's answer to it
UnmarshalDecl(x, next, root, csr, useCharsetReader) ==
    IF ~x.ok THEN DocError(csr \o x.csr)
    ELSE Unmarshal(x.s, next, root, csr \o x.csr, useCharsetReader)

\* the token tok read in front of the root
UnmarshalTok(s, tok, root, csr, useCharsetReader) ==
    IF tok.k \in {"eof", "error", "end"} THEN DocError(csr)
    ELSE IF tok.k = "text" THEN Unmarshal(s, tok.next, root, csr, useCharsetReader)
    ELSE IF tok.k = "procinst"
    THEN UnmarshalDecl(XmlDecl(s, tok, useCharsetReader), tok.next, root, csr,
                       useCharsetReader)
    ELSE IF tok.name # root THEN DocError(csr)
    ELSE IF tok.empty THEN Doc(TRUE, tok.name, <<>>, <<>>, csr)
    ELSE Children(s, tok.next, <<tok.name>>,
                  Doc(TRUE, tok.name, <<>>, <<>>, csr), useCharsetReader)

Unmarshal(s, i, root, csr, useCharsetReader) ==
    UnmarshalTok(s, RawToken(s, i), root, csr, useCharsetReader)

\* xml.NewDecoder(bytes.NewReader(body)) with decoder.CharsetReader =
\* charsetReader, then decoder.Decode(&result)
Decode(body, root) == Unmarshal(body, 1, root, <<>>, TRUE)

\* xml.Unmarshal(body, &result): a Decoder without CharsetReader
xmlUnmarshal(body, root) == Unmarshal(body, 1, root, <<>>, FALSE)

\* the value of attribute `key` of a decoded element, "" when absent
RECURSIVE AttrVal(_, _)
AttrVal(attrs, key) ==
    IF attrs = <<>> THEN <<>>
    ELSE IF attrs[1][1] = key THEN attrs[1][2]
    ELSE AttrVal(Tail(attrs), key)

---------------------------------------------------------------------------
(* Response bodies: XML documents rendered to bytes.                       *)

s_DeclHead == <<60, 63, 120, 109, 108, 32, 118, 101, 114, 115, 105, 111, 110, 61, 34, 49, 46, 48, 34, 32, 101, 110, 99, 111, 100, 105, 110, 103, 61, 34>> \* `<?xml version="1.0" encoding="`
s_DeclTail == <<34, 63, 62>>                                     \* `"?>`
s_DeclNoEnc == <<60, 63, 120, 109, 108, 32, 118, 101, 114, 115, 105, 111, 110, 61, 34, 49, 46, 48, 34, 63, 62>> \* `<?xml version="1.0"?>`

\* n spaces
Pad(n) == [i \in 1..n |-> 32]

\* the XML declaration naming `label`; none for the empty label
Decl(label) == IF label = <<>> THEN <<>> ELSE s_DeclHead \o label \o s_DeclTail

RECURSIVE RenderAttrs(_)
RenderAttrs(attrs) ==
    IF attrs = <<>> THEN <<>>
    ELSE <<32>> \o attrs[1][1] \o <<61, 34>> \o attrs[1][2] \o <<34>>
         \o RenderAttrs(Tail(attrs))

\* <name k="v" ...>inner</name>
Elem(name, attrs, inner) ==
    <<60>> \o name \o RenderAttrs(attrs) \o <<62>> \o inner
    \o <<60, 47>> \o name \o <<62>>

\* <name k="v" .../>
EmptyElem(name, attrs) == <<60>> \o name \o RenderAttrs(attrs) \o <<47, 62>>

\* all sequences over A of length at most n
SeqsUpTo(A, n) == UNION {[1..k -> A] : k \in 0..n}

---------------------------------------------------------------------------
(* The Client, the HTTP transport's answers, and the values returned.      *)

\* part_001:28, main.go:22 NewClient: BaseURL and Token as given.  pkg names
\* the package the Client comes from; the HTTPClient is the transport, whose
\* answers are the environment's.
NewClient(pkg, baseURL, token) == [pkg |-> pkg, BaseURL |-> baseURL, Token |-> token]

\* url.Parse(BaseURL + "/addons/xmlapi/" + endpoint) fails on a base URL
\* that starts with a colon ("missing protocol scheme")
urlParseFails(baseURL) == baseURL = ":bad"

\* strings.Join
RECURSIVE Join(_, _)
Join(elems, sep) ==
    IF elems = <<>> THEN <<>>
    ELSE IF Len(elems) = 1 THEN elems[1]
    ELSE elems[1] \o sep \o Join(Tail(elems), sep)

s_comma == <<44>>       \* ","

\* strings.TrimSpace on ASCII white space
TrimSpace(s) ==
    LET S == {j \in 1..Len(s) : s[j] \notin {32, 9, 10, 11, 12, 13}} IN
    IF S = {} THEN <<>>
    ELSE SubSeq(s, Min(S), CHOOSE x \in S : \A y \in S : y <= x)

\* a map[string]string with no key
NoParams == [k \in {} |-> <<>>]
\* params[key] = value when cond
ParamIf(cond, key, value) == IF cond THEN key :> value ELSE NoParams

\* the error messages, word by word
ErrLenState == <<"device", "IDs", "and", "new", "values", "must", "have", "the", "same", "length">>
ErrLenMaster == <<"device", "IDs", ",", "names", ",", "and", "values", "must", "have", "the", "same", "length">>
ErrInvalidURL == <<"invalid", "URL", ":", "%w">>
ErrRequestFailed == <<"HTTP", "request", "failed", ":", "%w">>
ErrHTTP == <<"HTTP", "error", ":", "%d">>
ErrRead == <<"failed", "to", "read", "response", ":", "%w">>
ErrConvert == <<"failed", "to", "convert", "encoding", ":", "%w">>
ErrParseXML == <<"failed", "to", "parse", "XML", ":", "%w">>
ErrParseVersionXML == <<"failed", "to", "parse", "version", "XML", ":", "%w">>
ErrNotFound == <<"system", "variable", "not", "found">>

\* http.StatusOK
StatusOK == 200

\* the values an operation returns beside its error
Val(kind, isNil, items, text) ==
    [kind |-> kind, nil |-> isNil, items |-> items, text |-> text]
NoVal == Val("none", TRUE, <<>>, <<>>)          \* the operation returns an error only
NilSlice == Val("slice", TRUE, <<>>, <<>>)
MadeSlice(items) == Val("slice", FALSE, items, <<>>)    \* built on make([]T, 0)
\* a slice field of a decoded struct: nil until an element is appended
Slice(items) == Val("slice", items = <<>>, items, <<>>)
Str(text) == Val("string", FALSE, <<>>, text)
NilPtr == Val("ptr", TRUE, <<>>, <<>>)
Ptr(item) == Val("ptr", FALSE, <<item>>, <<>>)

\* what a call did: the requests it issued, each with the transport's
\* answer to it; whether the response body was read; the charsets handed to
\* charsetReader; the error and the value returned
Outcome(reqs, bodyRead, csr, err, val) ==
    [reqs |-> reqs, bodyRead |-> bodyRead, csr |-> csr, err |-> err, val |-> val]

\* one HTTP GET: the endpoint, the query as sent, the transport's answer
Exchange(c, endpoint, params, resp) ==
    [endpoint |-> endpoint, query |-> params @@ ("sid" :> c.Token), resp |-> resp]

\* the elements named `name` among the children of a decoded root
KidsNamed(doc, name) == SelectSeq(doc.kids, LAMBDA k : k.name = name)

\* part_001:45 Device, :101 Room, :109 Function, :117 SystemVariable: the
\* name and ise_id attributes; :89 Program, :138 DeviceType: name and id
DeviceOf(k) == [Name |-> AttrVal(k.attrs, s_name), IseID |-> AttrVal(k.attrs, s_ise_id)]
ProgramOf(k) == [Name |-> AttrVal(k.attrs, s_name), ID |-> AttrVal(k.attrs, s_id)]

\* the element type of a slice field by its tag: Program and DeviceType
\* carry name and id, the others name and ise_id
ItemOf(k) == IF k.name \in {s_program, s_deviceType} THEN ProgramOf(k) ELSE DeviceOf(k)

\* a slice field tagged xml:"<elem>" of a decoded struct: the children named
\* elem, in document order
Items(doc, elem) ==
    [i \in 1..Len(KidsNamed(doc, elem)) |-> ItemOf(KidsNamed(doc, elem)[i])]

\* APIResponse.Version: the character data of the last <version> child
Version(doc) ==
    LET ks == KidsNamed(doc, s_version) IN
    IF ks = <<>> THEN <<>> ELSE ks[Len(ks)].text

---------------------------------------------------------------------------
(* src/unnamed/part_001: the transport                                     *)

\* what the transport hands on: the requests issued, whether the body was
\* read, the error, and the body
Raw(reqs, bodyRead, err, body) ==
    [reqs |-> reqs, bodyRead |-> bodyRead, err |-> err, body |-> body]

\* part_001:328 the body read by makeRawRequest goes through convertToUTF8,
\* u being its answer
RawConverted(x, u) ==
    IF u.err # Nil THEN Raw(x, TRUE, ErrConvert, <<>>)
    ELSE Raw(x, TRUE, Nil, u.data)

\* variants of makeRawRequest that each differ from the source in one step
makeRawRequest_IgnoreStatus(c, endpoint, params, resp) ==
    IF urlParseFails(c.BaseURL) THEN Raw(<<>>, FALSE, ErrInvalidURL, <<>>)
    ELSE IF resp.failed
    THEN Raw(<<Exchange(c, endpoint, params, resp)>>, FALSE, ErrRequestFailed, <<>>)
    ELSE IF resp.readFails
    THEN Raw(<<Exchange(c, endpoint, params, resp)>>, TRUE, ErrRead, <<>>)
    ELSE RawConverted(<<Exchange(c, endpoint, params, resp)>>, convertToUTF8(resp.body))

makeRawRequest_Retry(c, endpoint, params, resp) ==
    IF urlParseFails(c.BaseURL) THEN Raw(<<>>, FALSE, ErrInvalidURL, <<>>)
    ELSE IF resp.failed
    THEN Raw(<<Exchange(c, endpoint, params, resp), Exchange(c, endpoint, params, resp)>>,
             FALSE, ErrRequestFailed, <<>>)
    ELSE IF resp.status # StatusOK
    THEN Raw(<<Exchange(c, endpoint, params, resp), Exchange(c, endpoint, params, resp)>>,
             FALSE, ErrHTTP, <<>>)
    ELSE IF resp.readFails
    THEN Raw(<<Exchange(c, endpoint, params, resp)>>, TRUE, ErrRead, <<>>)
    ELSE RawConverted(<<Exchange(c, endpoint, params, resp)>>, convertToUTF8(resp.body))

\* part_001:300 makeRawRequest: the raw body, normalised to UTF-8
makeRawRequest(c, endpoint, params, resp) ==
    IF urlParseFails(c.BaseURL) THEN Raw(<<>>, FALSE, ErrInvalidURL, <<>>)
    ELSE IF resp.failed
    THEN Raw(<<Exchange(c, endpoint, params, resp)>>, FALSE, ErrRequestFailed, <<>>)
    ELSE IF resp.status # StatusOK
    THEN Raw(<<Exchange(c, endpoint, params, resp)>>, FALSE, ErrHTTP, <<>>)
    ELSE IF resp.readFails
    THEN Raw(<<Exchange(c, endpoint, params, resp)>>, TRUE, ErrRead, <<>>)
    ELSE RawConverted(<<Exchange(c, endpoint, params, resp)>>, convertToUTF8(resp.body))

\* what makeRequest hands on: as Raw, with the decoded APIResponse for body
Parsed(reqs, bodyRead, err, doc) ==
    [reqs |-> reqs, bodyRead |-> bodyRead, err |-> err, doc |-> doc]

\* a variant that drops the decoder's error
RequestDecoded_Swallowed(x, result) == Parsed(x, TRUE, Nil, result)

\* part_001:290, main.go:175 the body decoded as an APIResponse (<result>),
\* result being the decoder's answer
RequestDecoded(x, result) ==
    Parsed(x, TRUE, IF result.ok THEN Nil ELSE ErrParseXML, result)

\* part_001:281 the body read by makeRequest goes through convertToUTF8,
\* u being its answer, and then to the decoder
RequestConverted(x, u) ==
    IF u.err # Nil THEN Parsed(x, TRUE, ErrConvert, DocError(<<>>))
    ELSE RequestDecoded(x, Decode(u.data, s_result))

\* part_001:251 makeRequest: the body decoded as an APIResponse (<result>)
makeRequest(c, endpoint, params, resp) ==
    IF urlParseFails(c.BaseURL) THEN Parsed(<<>>, FALSE, ErrInvalidURL, DocError(<<>>))
    ELSE IF resp.failed
    THEN Parsed(<<Exchange(c, endpoint, params, resp)>>, FALSE, ErrRequestFailed,
                DocError(<<>>))
    ELSE IF resp.status # StatusOK
    THEN Parsed(<<Exchange(c, endpoint, params, resp)>>, FALSE, ErrHTTP, DocError(<<>>))
    ELSE IF resp.readFails
    THEN Parsed(<<Exchange(c, endpoint, params, resp)>>, TRUE, ErrRead, DocError(<<>>))
    ELSE RequestConverted(<<Exchange(c, endpoint, params, resp)>>,
                          convertToUTF8(resp.body))

\* main.go:145 makeRequest: no normalisation, xml.Unmarshal into APIResponse
makeRequest_hm(c, endpoint, params, resp) ==
    IF urlParseFails(c.BaseURL) THEN Parsed(<<>>, FALSE, ErrInvalidURL, DocError(<<>>))
    ELSE IF resp.failed
    THEN Parsed(<<Exchange(c, endpoint, params, resp)>>, FALSE, ErrRequestFailed,
                DocError(<<>>))
    ELSE IF resp.status # StatusOK
    THEN Parsed(<<Exchange(c, endpoint, params, resp)>>, FALSE, ErrHTTP, DocError(<<>>))
    ELSE IF resp.readFails
    THEN Parsed(<<Exchange(c, endpoint, params, resp)>>, TRUE, ErrRead, DocError(<<>>))
    ELSE RequestDecoded(<<Exchange(c, endpoint, params, resp)>>,
                        xmlUnmarshal(resp.body, s_result))

---------------------------------------------------------------------------
(* src/unnamed/part_001: the public operations.  Each takes the Client,    *)
(* its arguments, and the transport's answer to the request it issues.     *)

s_1 == <<49>>                           \* "1"
s_true == <<116, 114, 117, 101>>        \* "true"
s_false == <<102, 97, 108, 115, 101>>   \* "false"

\* a variant of FormatBool that writes digits
FormatBool_Digit(v) == IF v THEN <<49>> ELSE <<48>>

\* strconv.FormatBool
FormatBool(v) == IF v THEN s_true ELSE s_false

\* `return "", err` and `return nil, err` after makeRawRequest
Failed(raw, zero) == Outcome(raw.reqs, raw.bodyRead, <<>>, raw.err, zero)

\* a variant that keeps the devices returned to goroutine 1 and adds them
\* to later results
ListDecoded_Merged(raw, result, elem) ==
    IF ~result.ok
    THEN Outcome(raw.reqs, raw.bodyRead, result.csr, ErrParseXML, NilSlice)
    ELSE Outcome(raw.reqs, raw.bodyRead, result.csr, Nil,
                 Slice(Items(result, elem)
                       \o (IF calls # <<>> /\ calls[1].pc = "done"
                           THEN calls[1].out.val.items ELSE <<>>)))

\* decoder.Decode(&result) has answered `result` for an operation that
\* returns the slice field tagged elem
ListDecoded(raw, result, elem) ==
    IF ~result.ok
    THEN Outcome(raw.reqs, raw.bodyRead, result.csr, ErrParseXML, NilSlice)
    ELSE Outcome(raw.reqs, raw.bodyRead, result.csr, Nil, Slice(Items(result, elem)))

\* makeRawRequest has answered `raw`: its error handed on, or the body
\* decoded into the struct whose XMLName is `root`
ListAnswer(raw, root, elem) ==
    IF raw.err # Nil THEN Failed(raw, NilSlice)
    ELSE ListDecoded(raw, Decode(raw.body, root), elem)

\* part_001:350 GetVersion after decoder.Decode(&versionResp)
VersionDecoded(raw, versionResp) ==
    IF ~versionResp.ok
    THEN Outcome(raw.reqs, raw.bodyRead, versionResp.csr, ErrParseVersionXML, Str(<<>>))
    ELSE Outcome(raw.reqs, raw.bodyRead, versionResp.csr, Nil,
                 Str(TrimSpace(versionResp.text)))

\* part_001:342 GetVersion after makeRawRequest
VersionAnswer(raw) ==
    IF raw.err # Nil THEN Failed(raw, Str(<<>>))
    ELSE VersionDecoded(raw, Decode(raw.body, s_version))

\* part_001:428 GetStateList after decoder.Decode(&result): deviceID filters
\* the decoded list into a slice built on make([]Device, 0)
StateListDecoded(raw, result, deviceID) ==
    IF ~result.ok
    THEN Outcome(raw.reqs, raw.bodyRead, result.csr, ErrParseXML, NilSlice)
    ELSE IF deviceID # <<>>
    THEN Outcome(raw.reqs, raw.bodyRead, result.csr, Nil,
                 MadeSlice(SelectSeq(Items(result, s_device),
                                     LAMBDA device : device.IseID = deviceID)))
    ELSE Outcome(raw.reqs, raw.bodyRead, result.csr, Nil,
                 Slice(Items(result, s_device)))

\* part_001:420 GetStateList after makeRawRequest
StateListAnswer(raw, deviceID) ==
    IF raw.err # Nil THEN Failed(raw, NilSlice)
    ELSE StateListDecoded(raw, Decode(raw.body, s_stateList), deviceID)

\* a variant of GetSystemVariable that returns the last element
SystemVariableDecoded_Last(raw, result) ==
    IF ~result.ok
    THEN Outcome(raw.reqs, raw.bodyRead, result.csr, ErrParseXML, NilPtr)
    ELSE IF Len(Items(result, s_systemVariable)) = 0
    THEN Outcome(raw.reqs, raw.bodyRead, result.csr, ErrNotFound, NilPtr)
    ELSE Outcome(raw.reqs, raw.bodyRead, result.csr, Nil,
                 Ptr(Items(result, s_systemVariable)[Len(Items(result, s_systemVariable))]))

\* part_001:626 GetSystemVariable after decoder.Decode(&result)
SystemVariableDecoded(raw, result) ==
    IF ~result.ok
    THEN Outcome(raw.reqs, raw.bodyRead, result.csr, ErrParseXML, NilPtr)
    ELSE IF Len(Items(result, s_systemVariable)) = 0
    THEN Outcome(raw.reqs, raw.bodyRead, result.csr, ErrNotFound, NilPtr)
    ELSE Outcome(raw.reqs, raw.bodyRead, result.csr, Nil,
                 Ptr(Items(result, s_systemVariable)[1]))

\* part_001:618 GetSystemVariable after makeRawRequest
SystemVariableAnswer(raw) ==
    IF raw.err # Nil THEN Failed(raw, NilPtr)
    ELSE SystemVariableDecoded(raw, Decode(raw.body, s_systemVariables))

\* part_001:340 GetVersion
GetVersion(c, resp) ==
    VersionAnswer(makeRawRequest(c, "version.cgi", NoParams, resp))

\* part_001:359 GetDeviceList
GetDeviceList(c, deviceIDs, showInternal, showRemote, resp) ==
    ListAnswer(makeRawRequest(c, "devicelist.cgi",
               ParamIf(Len(deviceIDs) > 0, "device_id", Join(deviceIDs, s_comma))
               @@ ParamIf(showInternal, "show_internal", s_1)
               @@ ParamIf(showRemote, "show_remote", s_1), resp),
           s_deviceList, s_device)

\* part_001:390 GetDeviceTypes
GetDeviceTypes(c, resp) ==
    ListAnswer(makeRawRequest(c, "devicetypelist.cgi", NoParams, resp),
           s_deviceTypes, s_deviceType)

\* part_001:494 GetProgramList
GetProgramList(c, resp) ==
    ListAnswer(makeRawRequest(c, "programlist.cgi", NoParams, resp),
           s_programList, s_program)

\* part_001:543 GetRoomList
GetRoomList(c, resp) ==
    ListAnswer(makeRawRequest(c, "roomlist.cgi", NoParams, resp),
           s_roomList, s_room)

\* part_001:562 GetFunctionList
GetFunctionList(c, resp) ==
    ListAnswer(makeRawRequest(c, "functionlist.cgi", NoParams, resp),
           s_functionList, s_function)

\* part_001:409 GetStateList: deviceID is not sent; it filters the decoded
\* list into a slice built on make([]Device, 0)
GetStateList(c, deviceID, showInternal, showRemote, resp) ==
    StateListAnswer(makeRawRequest(c, "statelist.cgi",
                        ParamIf(showInternal, "show_internal", s_1)
                        @@ ParamIf(showRemote, "show_remote", s_1), resp),
                    deviceID)

\* part_001:448 GetState
GetState(c, deviceIDs, channelIDs, datapointIDs, resp) ==
    ListAnswer(makeRawRequest(c, "state.cgi",
               ParamIf(Len(deviceIDs) > 0, "device_id", Join(deviceIDs, s_comma))
               @@ ParamIf(Len(channelIDs) > 0, "channel_id", Join(channelIDs, s_comma))
               @@ ParamIf(Len(datapointIDs) > 0, "datapoint_id",
                          Join(datapointIDs, s_comma)), resp),
           s_stateList, s_device)

\* after makeRequest, for the operations that return its error only
ErrorOnly(r) == Outcome(r.reqs, r.bodyRead, r.doc.csr, r.err, NoVal)

\* variants of ChangeState that each differ from the source in one step
ChangeState_NoLengthCheck(c, deviceIDs, newValues, resp) ==
    ErrorOnly(makeRequest(c, "statechange.cgi",
                          ("ise_id" :> Join(deviceIDs, s_comma))
                          @@ ("new_value" :> Join(newValues, s_comma)), resp))

ChangeState_Swapped(c, deviceIDs, newValues, resp) ==
    IF Len(deviceIDs) # Len(newValues)
    THEN Outcome(<<>>, FALSE, <<>>, ErrLenState, NoVal)
    ELSE ErrorOnly(makeRequest(c, "statechange.cgi",
                               ("ise_id" :> Join(newValues, s_comma))
                               @@ ("new_value" :> Join(deviceIDs, s_comma)), resp))

\* part_001:479 ChangeState
ChangeState(c, deviceIDs, newValues, resp) ==
    IF Len(deviceIDs) # Len(newValues)
    THEN Outcome(<<>>, FALSE, <<>>, ErrLenState, NoVal)
    ELSE ErrorOnly(makeRequest(c, "statechange.cgi",
                               ("ise_id" :> Join(deviceIDs, s_comma))
                               @@ ("new_value" :> Join(newValues, s_comma)), resp))

\* part_001:513 RunProgram
RunProgram(c, programID, condCheck, resp) ==
    ErrorOnly(makeRequest(c, "runprogram.cgi",
                          ("program_id" :> programID)
                          @@ ParamIf(condCheck, "cond_check", s_1), resp))

\* part_001:526 ChangeProgramActions: active and visible are *bool, modelled
\* as <<>> (nil) or <<b>>
ChangeProgramActions(c, programID, active, visible, resp) ==
    ErrorOnly(makeRequest(c, "programactions.cgi",
                          ("program_id" :> programID)
                          @@ ParamIf(active # <<>>, "active", FormatBool(active[1]))
                          @@ ParamIf(visible # <<>>, "visible", FormatBool(visible[1])),
                          resp))

\* part_001:581 GetSystemVariableList
GetSystemVariableList(c, showText, resp) ==
    ListAnswer(makeRawRequest(c, "sysvarlist.cgi", "text" :> (IF showText THEN s_true ELSE s_false), resp),
           s_systemVariables, s_systemVariable)

\* part_001:607 GetSystemVariable
GetSystemVariable(c, iseID, showText, resp) ==
    SystemVariableAnswer(
        makeRawRequest(c, "sysvar.cgi",
            ("ise_id" :> iseID) @@ ("text" :> IF showText THEN s_true ELSE s_false),
            resp))

\* part_001:639 RegisterToken
RegisterToken(c, description, resp) ==
    ErrorOnly(makeRequest(c, "tokenregister.cgi", "desc" :> description, resp))

\* part_001:649 RevokeToken: params["sid"] replaces the sid makeRequest set
RevokeToken(c, tokenID, resp) ==
    ErrorOnly(makeRequest(c, "tokenrevoke.cgi", "sid" :> tokenID, resp))

\* part_001:659 GetMasterValue
GetMasterValue(c, deviceIDs, requestedNames, resp) ==
    ListAnswer(makeRawRequest(c, "mastervalue.cgi",
               ParamIf(Len(deviceIDs) > 0, "device_id", Join(deviceIDs, s_comma))
               @@ ParamIf(Len(requestedNames) > 0, "requested_names",
                          Join(requestedNames, s_comma)), resp),
           s_deviceList, s_device)

\* part_001:687 ChangeMasterValue
ChangeMasterValue(c, deviceIDs, names, values, resp) ==
    IF Len(deviceIDs) # Len(names) \/ Len(names) # Len(values)
    THEN Outcome(<<>>, FALSE, <<>>, ErrLenMaster, NoVal)
    ELSE ErrorOnly(makeRequest(c, "mastervaluechange.cgi",
                               ("device_id" :> Join(deviceIDs, s_comma))
                               @@ ("name" :> Join(names, s_comma))
                               @@ ("value" :> Join(values, s_comma)), resp))

---------------------------------------------------------------------------
(* src/homematic/main.go: the public operations (suffix _hm).  Every one   *)
(* goes through makeRequest_hm and reads a field of the APIResponse.       *)

\* makeRequest_hm has answered r: `return nil, err`, or the slice field of
\* the APIResponse tagged elem
ListField(r, elem) ==
    IF r.err # Nil THEN Outcome(r.reqs, r.bodyRead, r.doc.csr, r.err, NilSlice)
    ELSE Outcome(r.reqs, r.bodyRead, r.doc.csr, Nil, Slice(Items(r.doc, elem)))

\* main.go:185 GetVersion after makeRequest
VersionField(r) ==
    IF r.err # Nil THEN Outcome(r.reqs, r.bodyRead, r.doc.csr, r.err, Str(<<>>))
    ELSE Outcome(r.reqs, r.bodyRead, r.doc.csr, Nil, Str(Version(r.doc)))

\* main.go:364 GetSystemVariable after makeRequest
SystemVariableField(r) ==
    IF r.err # Nil THEN Outcome(r.reqs, r.bodyRead, r.doc.csr, r.err, NilPtr)
    ELSE IF Len(Items(r.doc, s_systemVariable)) = 0
    THEN Outcome(r.reqs, r.bodyRead, r.doc.csr, ErrNotFound, NilPtr)
    ELSE Outcome(r.reqs, r.bodyRead, r.doc.csr, Nil,
                 Ptr(Items(r.doc, s_systemVariable)[1]))

\* main.go:184 GetVersion
GetVersion_hm(c, resp) ==
    VersionField(makeRequest_hm(c, "version.cgi", NoParams, resp))

\* main.go:193 GetDeviceList
GetDeviceList_hm(c, deviceIDs, showInternal, showRemote, resp) ==
    ListField(makeRequest_hm(c, "devicelist.cgi",
              ParamIf(Len(deviceIDs) > 0, "device_id", Join(deviceIDs, s_comma))
              @@ ParamIf(showInternal, "show_internal", s_1)
              @@ ParamIf(showRemote, "show_remote", s_1), resp),
              s_device)

\* main.go:214 GetDeviceTypes
GetDeviceTypes_hm(c, resp) ==
    ListField(makeRequest_hm(c, "devicetypelist.cgi", NoParams, resp),
              s_deviceType)

\* main.go:223 GetStateList: deviceID goes to the server as ise_id; the
\* decoded list is returned as it is
GetStateList_hm(c, deviceID, showInternal, showRemote, resp) ==
    ListField(makeRequest_hm(c, "statelist.cgi",
              ParamIf(deviceID # <<>>, "ise_id", deviceID)
              @@ ParamIf(showInternal, "show_internal", s_1)
              @@ ParamIf(showRemote, "show_remote", s_1), resp),
              s_device)

\* main.go:244 GetState
GetState_hm(c, deviceIDs, channelIDs, datapointIDs, resp) ==
    ListField(makeRequest_hm(c, "state.cgi",
              ParamIf(Len(deviceIDs) > 0, "device_id", Join(deviceIDs, s_comma))
              @@ ParamIf(Len(channelIDs) > 0, "channel_id", Join(channelIDs, s_comma))
              @@ ParamIf(Len(datapointIDs) > 0, "datapoint_id",
                         Join(datapointIDs, s_comma)), resp),
              s_device)

\* after makeRequest_hm, for the operations that return its error only
ErrorOnly_hm(r) == Outcome(r.reqs, r.bodyRead, r.doc.csr, r.err, NoVal)

\* main.go:265 ChangeState
ChangeState_hm(c, deviceIDs, newValues, resp) ==
    IF Len(deviceIDs) # Len(newValues)
    THEN Outcome(<<>>, FALSE, <<>>, ErrLenState, NoVal)
    ELSE ErrorOnly_hm(makeRequest_hm(c, "statechange.cgi",
                                     ("ise_id" :> Join(deviceIDs, s_comma))
                                     @@ ("new_value" :> Join(newValues, s_comma)),
                                     resp))

\* main.go:280 GetProgramList
GetProgramList_hm(c, resp) ==
    ListField(makeRequest_hm(c, "programlist.cgi", NoParams, resp),
              s_program)

\* main.go:289 RunProgram
RunProgram_hm(c, programID, condCheck, resp) ==
    ErrorOnly_hm(makeRequest_hm(c, "runprogram.cgi",
                                ("program_id" :> programID)
                                @@ ParamIf(condCheck, "cond_check", s_1), resp))

\* main.go:302 ChangeProgramActions
ChangeProgramActions_hm(c, programID, active, visible, resp) ==
    ErrorOnly_hm(makeRequest_hm(c, "programactions.cgi",
                     ("program_id" :> programID)
                     @@ ParamIf(active # <<>>, "active", FormatBool(active[1]))
                     @@ ParamIf(visible # <<>>, "visible", FormatBool(visible[1])),
                     resp))

\* main.go:319 GetRoomList
GetRoomList_hm(c, resp) ==
    ListField(makeRequest_hm(c, "roomlist.cgi", NoParams, resp),
              s_room)

\* main.go:328 GetFunctionList
GetFunctionList_hm(c, resp) ==
    ListField(makeRequest_hm(c, "functionlist.cgi", NoParams, resp),
              s_function)

\* main.go:337 GetSystemVariableList
GetSystemVariableList_hm(c, showText, resp) ==
    ListField(makeRequest_hm(c, "sysvarlist.cgi", "text" :> (IF showText THEN s_true ELSE s_false), resp),
              s_systemVariable)

\* main.go:353 GetSystemVariable
GetSystemVariable_hm(c, iseID, showText, resp) ==
    SystemVariableField(
        makeRequest_hm(c, "sysvar.cgi",
            ("ise_id" :> iseID) @@ ("text" :> IF showText THEN s_true ELSE s_false),
            resp))

\* main.go:376 RegisterToken
RegisterToken_hm(c, description, resp) ==
    ErrorOnly_hm(makeRequest_hm(c, "tokenregister.cgi", "desc" :> description, resp))

\* main.go:386 RevokeToken
RevokeToken_hm(c, tokenID, resp) ==
    ErrorOnly_hm(makeRequest_hm(c, "tokenrevoke.cgi", "sid" :> tokenID, resp))

\* main.go:396 GetMasterValue
GetMasterValue_hm(c, deviceIDs, requestedNames, resp) ==
    ListField(makeRequest_hm(c, "mastervalue.cgi",
              ParamIf(Len(deviceIDs) > 0, "device_id", Join(deviceIDs, s_comma))
              @@ ParamIf(Len(requestedNames) > 0, "requested_names",
                         Join(requestedNames, s_comma)), resp),
              s_device)

\* main.go:414 ChangeMasterValue
ChangeMasterValue_hm(c, deviceIDs, names, values, resp) ==
    IF Len(deviceIDs) # Len(names) \/ Len(names) # Len(values)
    THEN Outcome(<<>>, FALSE, <<>>, ErrLenMaster, NoVal)
    ELSE ErrorOnly_hm(makeRequest_hm(c, "mastervaluechange.cgi",
                                     ("device_id" :> Join(deviceIDs, s_comma))
                                     @@ ("name" :> Join(names, s_comma))
                                     @@ ("value" :> Join(values, s_comma)), resp))

---------------------------------------------------------------------------
(* The calls: one operation with its arguments, and what it did.           *)

Call(op, args) == [op |-> op, args |-> args]
NoCall == Call("none", <<>>)
NoOutcome == Outcome(<<>>, FALSE, <<>>, Nil, NoVal)

---------------------------------------------------------------------------
(* convertToUTF8 on its own: inputs drawn from bounded sets.               *)

\* 'A', 0xE9 (Latin-1 e-acute, not UTF-8 alone), 0xC3 0xA9 (UTF-8 e-acute),
\* 0x80 (a Windows-1252 euro sign, a lone continuation byte in UTF-8)
ByteAlphabet == {65, 233, 195, 169, 128}
ContentAlphabet == {65, 233, 195, 169}

MaxRaw == 3         \* longest undeclared input
MaxContent == 2     \* longest character data of a declared input
PadSpread == 5      \* paddings that move the label across the sniffed prefix

s_v == <<118>>      \* "v"

Labels == {s_UTF_8, s_ISO_8859_1, s_iso_8859_1, s_Iso_8859_1, s_latin1,
           s_LATIN1, s_windows_1252, s_koi8_r}

\* With p spaces in front, the label starts at byte p + 31: "iso-8859-1"
\* lies within the first 200 bytes iff p <= 160, "latin1" iff p <= 164.
Pads == {0} \cup {SniffLen - Len(s_DeclHead) - Len(s_iso_8859_1) + k : k \in 0..PadSpread}

ConvContents == SeqsUpTo(ContentAlphabet, MaxContent)
                \cup {s_ISO_8859_1 \o <<233>>, <<233>> \o s_iso_8859_1}

RawInputs == SeqsUpTo(ByteAlphabet, MaxRaw)

DeclInputs == {Pad(p) \o Decl(l) \o Elem(s_v, <<>>, c) :
                 p \in Pads, l \in Labels, c \in ConvContents}

ConvInputs == RawInputs \cup DeclInputs

NoConv == [data |-> <<>>, err |-> Nil]

InitConv ==
    /\ cin \in ConvInputs
    /\ cout = NoConv
    /\ cpc = "input"
    /\ client = NewClient("part_001", "", <<>>)
    /\ pc = "off"
    /\ call = NoCall
    /\ out = NoOutcome
    /\ calls = <<>>

\* one call of convertToUTF8(cin)
Convert ==
    /\ cpc = "input"
    /\ cout' = convertToUTF8(cin)
    /\ cpc' = "returned"
    /\ UNCHANGED <<cin, client, pc, call, out, calls>>

NextConv == Convert

SpecConv == InitConv /\ [][NextConv]_vars

---------------------------------------------------------------------------
(* The client in use: arguments and transport answers from bounded sets.   *)

MaxList == 2        \* longest argument list

s_2 == <<50>>      \* "2"
s_3 == <<51>>      \* "3"
s_t1 == <<116, 49>>     \* "t1"
s_t2 == <<116, 50>>     \* "t2"
s_A == <<65>>      \* "A"
s_B == <<66>>      \* "B"
s_eacute == <<195, 169>>     \* e-acute in UTF-8
s_0_20 == <<48, 46, 50, 48>>   \* "0.20"
s_on == <<111, 110>>     \* "on"
s_c == <<99>>      \* "c"
s_p == <<112>>      \* "p"
s_n == <<110>>      \* "n"
s_val == <<118>>    \* "v"
s_desc == <<100, 101, 115, 99>>   \* "desc"
s_a_b == <<97, 44, 98>>     \* "a,b"
s_2_3 == <<32, 50, 46, 51, 10>>     \* " 2.3" and a line feed

Pkgs == {"part_001", "homematic"}
BaseURLs == {"https://192.168.1.100", ":bad"}
Tokens == {s_t1, s_t2}
IDs == {s_1, s_2}
DeviceIDs == {<<>>, s_1, s_2, s_3}      \* no device of a body has ise_id 3
IDLists == SeqsUpTo(IDs, MaxList)
ValueLists == SeqsUpTo({s_0_20, s_on}, MaxList)
ChannelLists == SeqsUpTo({s_c}, MaxList)
DatapointLists == SeqsUpTo({s_p}, MaxList)
NameLists == SeqsUpTo({s_n}, MaxList)
MasterValueLists == SeqsUpTo({s_val, s_a_b, <<>>}, MaxList)    \* "v", "a,b" and ""
ProgramIDs == {s_1, s_2}
Descriptions == {<<>>, s_desc}
BoolPtrs == {<<>>, <<TRUE>>, <<FALSE>>}

\* the transport's answer to one GET: a failure, or a status with a body
\* whose reading may fail
Resp(failed, status, readFails, body) ==
    [failed |-> failed, status |-> status, readFails |-> readFails, body |-> body]

Dev(id, name) == EmptyElem(s_device, << <<s_name, name>>, <<s_ise_id, id>> >>)
\* three devices: ise_id 1, 2 and 1 again
ThreeDevices == Dev(s_1, s_A) \o Dev(s_2, s_eacute) \o Dev(s_1, s_B)

\* the children a well-formed response with root `root` holds
Payload(root) ==
    IF root \in {s_deviceList, s_stateList} THEN ThreeDevices
    ELSE IF root = s_programList
    THEN EmptyElem(s_program, << <<s_id, s_1>>, <<s_name, s_A>> >>)
    ELSE IF root = s_roomList
    THEN EmptyElem(s_room, << <<s_name, s_A>>, <<s_ise_id, s_1>> >>)
    ELSE IF root = s_functionList
    THEN EmptyElem(s_function, << <<s_name, s_A>>, <<s_ise_id, s_1>> >>)
    ELSE IF root = s_systemVariables
    THEN EmptyElem(s_systemVariable, << <<s_name, s_A>>, <<s_ise_id, s_2>> >>)
         \o EmptyElem(s_systemVariable, << <<s_name, s_B>>, <<s_ise_id, s_1>> >>)
    ELSE IF root = s_deviceTypes
    THEN EmptyElem(s_deviceType, << <<s_name, s_A>>, <<s_id, s_1>> >>)
    ELSE IF root = s_version THEN s_2_3
    ELSE \* <result>: what main.go's APIResponse reads
         ThreeDevices
         \o EmptyElem(s_program, << <<s_id, s_1>>, <<s_name, s_A>> >>)
         \o EmptyElem(s_systemVariable, << <<s_name, s_A>>, <<s_ise_id, s_2>> >>)
         \o Elem(s_version, <<>>, s_2_3)

Roots == {s_deviceList, s_stateList, s_programList, s_roomList, s_functionList,
          s_systemVariables, s_deviceTypes, s_version, s_result}

\* a state list in Latin-1 bytes: one device named e-acute (0xE9)
Latin1StateList(label) == Decl(label) \o Elem(s_stateList, <<>>, Dev(s_1, <<233>>))

Bodies ==
    {Elem(r, <<>>, Payload(r)) : r \in Roots}
    \cup {EmptyElem(r, <<>>) : r \in {s_stateList, s_systemVariables, s_result}}
    \cup {Latin1StateList(l) : l \in {s_ISO_8859_1, s_iso_8859_1, s_Iso_8859_1, s_latin1,
                                      s_windows_1252, s_koi8_r}}
    \cup {Decl(s_koi8_r) \o Elem(s_stateList, <<>>, ThreeDevices)}  \* UTF-8 under another name
    \cup {<<>>,                                             \* an empty body
          <<60>> \o s_stateList \o <<62>> \o Dev(s_1, s_A),    \* root never closed
          Elem(s_stateList, <<>>, Dev(s_1, <<233>>))}        \* not UTF-8, no declaration

Responses ==
    {Resp(TRUE, 0, FALSE, <<>>)}
    \cup {Resp(FALSE, st, FALSE, b) :
            st \in {204, 500}, b \in {<<>>, Elem(s_stateList, <<>>, ThreeDevices)}}
    \cup {Resp(FALSE, StatusOK, TRUE, <<>>)}
    \cup {Resp(FALSE, StatusOK, FALSE, b) : b \in Bodies}

Init ==
    /\ client \in {NewClient(p, u, t) : p \in Pkgs, u \in BaseURLs, t \in {s_t1}}
    /\ pc = "idle"
    /\ call = NoCall
    /\ out = NoOutcome
    /\ cin = <<>>
    /\ cout = NoConv
    /\ cpc = "off"
    /\ calls = <<>>

\* a call of GetVersion
DoGetVersion ==
    /\ pc = "idle"
    /\ \E resp \in Responses :
         /\ call' = Call("GetVersion", <<>>)
         /\ out' = IF client.pkg = "part_001"
                   THEN GetVersion(client, resp)
                   ELSE GetVersion_hm(client, resp)
    /\ pc' = "done"
    /\ UNCHANGED <<client, cin, cout, cpc, calls>>

\* a call of GetDeviceList
DoGetDeviceList ==
    /\ pc = "idle"
    /\ \E deviceIDs \in IDLists, showInternal \in BOOLEAN, showRemote \in BOOLEAN, resp \in Responses :
         /\ call' = Call("GetDeviceList", <<deviceIDs, showInternal, showRemote>>)
         /\ out' = IF client.pkg = "part_001"
                   THEN GetDeviceList(client, deviceIDs, showInternal, showRemote, resp)
                   ELSE GetDeviceList_hm(client, deviceIDs, showInternal, showRemote, resp)
    /\ pc' = "done"
    /\ UNCHANGED <<client, cin, cout, cpc, calls>>

\* a call of GetDeviceTypes
DoGetDeviceTypes ==
    /\ pc = "idle"
    /\ \E resp \in Responses :
         /\ call' = Call("GetDeviceTypes", <<>>)
         /\ out' = IF client.pkg = "part_001"
                   THEN GetDeviceTypes(client, resp)
                   ELSE GetDeviceTypes_hm(client, resp)
    /\ pc' = "done"
    /\ UNCHANGED <<client, cin, cout, cpc, calls>>

\* a call of GetStateList
DoGetStateList ==
    /\ pc = "idle"
    /\ \E deviceID \in DeviceIDs, showInternal \in BOOLEAN, showRemote \in BOOLEAN, resp \in Responses :
         /\ call' = Call("GetStateList", <<deviceID, showInternal, showRemote>>)
         /\ out' = IF client.pkg = "part_001"
                   THEN GetStateList(client, deviceID, showInternal, showRemote, resp)
                   ELSE GetStateList_hm(client, deviceID, showInternal, showRemote, resp)
    /\ pc' = "done"
    /\ UNCHANGED <<client, cin, cout, cpc, calls>>

\* a call of GetState
DoGetState ==
    /\ pc = "idle"
    /\ \E deviceIDs \in IDLists, channelIDs \in ChannelLists, datapointIDs \in DatapointLists, resp \in Responses :
         /\ call' = Call("GetState", <<deviceIDs, channelIDs, datapointIDs>>)
         /\ out' = IF client.pkg = "part_001"
                   THEN GetState(client, deviceIDs, channelIDs, datapointIDs, resp)
                   ELSE GetState_hm(client, deviceIDs, channelIDs, datapointIDs, resp)
    /\ pc' = "done"
    /\ UNCHANGED <<client, cin, cout, cpc, calls>>

\* a call of ChangeState
DoChangeState ==
    /\ pc = "idle"
    /\ \E deviceIDs \in IDLists, newValues \in ValueLists, resp \in Responses :
         /\ call' = Call("ChangeState", <<deviceIDs, newValues>>)
         /\ out' = IF client.pkg = "part_001"
                   THEN ChangeState(client, deviceIDs, newValues, resp)
                   ELSE ChangeState_hm(client, deviceIDs, newValues, resp)
    /\ pc' = "done"
    /\ UNCHANGED <<client, cin, cout, cpc, calls>>

\* a call of GetProgramList
DoGetProgramList ==
    /\ pc = "idle"
    /\ \E resp \in Responses :
         /\ call' = Call("GetProgramList", <<>>)
         /\ out' = IF client.pkg = "part_001"
                   THEN GetProgramList(client, resp)
                   ELSE GetProgramList_hm(client, resp)
    /\ pc' = "done"
    /\ UNCHANGED <<client, cin, cout, cpc, calls>>

\* a call of RunProgram
DoRunProgram ==
    /\ pc = "idle"
    /\ \E programID \in ProgramIDs, condCheck \in BOOLEAN, resp \in Responses :
         /\ call' = Call("RunProgram", <<programID, condCheck>>)
         /\ out' = IF client.pkg = "part_001"
                   THEN RunProgram(client, programID, condCheck, resp)
                   ELSE RunProgram_hm(client, programID, condCheck, resp)
    /\ pc' = "done"
    /\ UNCHANGED <<client, cin, cout, cpc, calls>>

\* a call of ChangeProgramActions
DoChangeProgramActions ==
    /\ pc = "idle"
    /\ \E programID \in ProgramIDs, active \in BoolPtrs, visible \in BoolPtrs, resp \in Responses :
         /\ call' = Call("ChangeProgramActions", <<programID, active, visible>>)
         /\ out' = IF client.pkg = "part_001"
                   THEN ChangeProgramActions(client, programID, active, visible, resp)
                   ELSE ChangeProgramActions_hm(client, programID, active, visible, resp)
    /\ pc' = "done"
    /\ UNCHANGED <<client, cin, cout, cpc, calls>>

\* a call of GetRoomList
DoGetRoomList ==
    /\ pc = "idle"
    /\ \E resp \in Responses :
         /\ call' = Call("GetRoomList", <<>>)
         /\ out' = IF client.pkg = "part_001"
                   THEN GetRoomList(client, resp)
                   ELSE GetRoomList_hm(client, resp)
    /\ pc' = "done"
    /\ UNCHANGED <<client, cin, cout, cpc, calls>>

\* a call of GetFunctionList
DoGetFunctionList ==
    /\ pc = "idle"
    /\ \E resp \in Responses :
         /\ call' = Call("GetFunctionList", <<>>)
         /\ out' = IF client.pkg = "part_001"
                   THEN GetFunctionList(client, resp)
                   ELSE GetFunctionList_hm(client, resp)
    /\ pc' = "done"
    /\ UNCHANGED <<client, cin, cout, cpc, calls>>

\* a call of GetSystemVariableList
DoGetSystemVariableList ==
    /\ pc = "idle"
    /\ \E showText \in BOOLEAN, resp \in Responses :
         /\ call' = Call("GetSystemVariableList", <<showText>>)
         /\ out' = IF client.pkg = "part_001"
                   THEN GetSystemVariableList(client, showText, resp)
                   ELSE GetSystemVariableList_hm(client, showText, resp)
    /\ pc' = "done"
    /\ UNCHANGED <<client, cin, cout, cpc, calls>>

\* a call of GetSystemVariable
DoGetSystemVariable ==
    /\ pc = "idle"
    /\ \E iseID \in IDs, showText \in BOOLEAN, resp \in Responses :
         /\ call' = Call("GetSystemVariable", <<iseID, showText>>)
         /\ out' = IF client.pkg = "part_001"
                   THEN GetSystemVariable(client, iseID, showText, resp)
                   ELSE GetSystemVariable_hm(client, iseID, showText, resp)
    /\ pc' = "done"
    /\ UNCHANGED <<client, cin, cout, cpc, calls>>

\* a call of RegisterToken
DoRegisterToken ==
    /\ pc = "idle"
    /\ \E description \in Descriptions, resp \in Responses :
         /\ call' = Call("RegisterToken", <<description>>)
         /\ out' = IF client.pkg = "part_001"
                   THEN RegisterToken(client, description, resp)
                   ELSE RegisterToken_hm(client, description, resp)
    /\ pc' = "done"
    /\ UNCHANGED <<client, cin, cout, cpc, calls>>

\* a call of RevokeToken
DoRevokeToken ==
    /\ pc = "idle"
    /\ \E tokenID \in Tokens, resp \in Responses :
         /\ call' = Call("RevokeToken", <<tokenID>>)
         /\ out' = IF client.pkg = "part_001"
                   THEN RevokeToken(client, tokenID, resp)
                   ELSE RevokeToken_hm(client, tokenID, resp)
    /\ pc' = "done"
    /\ UNCHANGED <<client, cin, cout, cpc, calls>>

\* a call of GetMasterValue
DoGetMasterValue ==
    /\ pc = "idle"
    /\ \E deviceIDs \in IDLists, requestedNames \in NameLists, resp \in Responses :
         /\ call' = Call("GetMasterValue", <<deviceIDs, requestedNames>>)
         /\ out' = IF client.pkg = "part_001"
                   THEN GetMasterValue(client, deviceIDs, requestedNames, resp)
                   ELSE GetMasterValue_hm(client, deviceIDs, requestedNames, resp)
    /\ pc' = "done"
    /\ UNCHANGED <<client, cin, cout, cpc, calls>>

\* a call of ChangeMasterValue
DoChangeMasterValue ==
    /\ pc = "idle"
    /\ \E deviceIDs \in IDLists, names \in NameLists, values \in MasterValueLists, resp \in Responses :
         /\ call' = Call("ChangeMasterValue", <<deviceIDs, names, values>>)
         /\ out' = IF client.pkg = "part_001"
                   THEN ChangeMasterValue(client, deviceIDs, names, values, resp)
                   ELSE ChangeMasterValue_hm(client, deviceIDs, names, values, resp)
    /\ pc' = "done"
    /\ UNCHANGED <<client, cin, cout, cpc, calls>>

\* the caller takes the result; the next call starts from the Client alone
Return ==
    /\ pc = "done"
    /\ pc' = "idle"
    /\ call' = NoCall
    /\ out' = NoOutcome
    /\ UNCHANGED <<client, cin, cout, cpc, calls>>

Next ==
    \/ DoGetVersion
    \/ DoGetDeviceList
    \/ DoGetDeviceTypes
    \/ DoGetStateList
    \/ DoGetState
    \/ DoChangeState
    \/ DoGetProgramList
    \/ DoRunProgram
    \/ DoChangeProgramActions
    \/ DoGetRoomList
    \/ DoGetFunctionList
    \/ DoGetSystemVariableList
    \/ DoGetSystemVariable
    \/ DoRegisterToken
    \/ DoRevokeToken
    \/ DoGetMasterValue
    \/ DoChangeMasterValue
    \/ Return

Spec == Init /\ [][Next]_vars

---------------------------------------------------------------------------
(* Properties of the calls.                                                *)

\* the arguments of the call whose result is out
Arg(n) == call.args[n]
Returned(op) == pc = "done" /\ call.op = op

\* the parallel lists of the call do not have one length
Mismatch ==
    \/ call.op = "ChangeState" /\ Len(Arg(1)) # Len(Arg(2))
    \/ call.op = "ChangeMasterValue"
       /\ (Len(Arg(1)) # Len(Arg(2)) \/ Len(Arg(2)) # Len(Arg(3)))

\* the call sent a request and the transport answered it with a status
Answered == out.reqs # <<>> /\ ~out.reqs[1].resp.failed
Status == out.reqs[1].resp.status

\* no record: a nil slice, an empty string, a nil pointer, or no value at all
NoRecord(v) == v \in {NoVal, NilSlice, NilPtr, Str(<<>>)}

\* C1: ChangeState with deviceIDs and newValues of different lengths, and
\* ChangeMasterValue with three lists that are not all of one length, return
\* the validation error and issue no HTTP GET.
C1_MismatchFailsBeforeRequest ==
    /\ (Returned("ChangeState") /\ Mismatch)
         => (out.err = ErrLenState /\ out.reqs = <<>> /\ ~out.bodyRead)
    /\ (Returned("ChangeMasterValue") /\ Mismatch)
         => (out.err = ErrLenMaster /\ out.reqs = <<>> /\ ~out.bodyRead)

\* two device ids and one value have been passed to ChangeState of a Client
\* whose base URL parses
C1_Witness_ChangeState ==
    /\ Returned("ChangeState")
    /\ Len(Arg(1)) = 2 /\ Len(Arg(2)) = 1
    /\ out.err = ErrLenState
    /\ client.BaseURL # ":bad"

\* C2 as stated: for lists of equal length (all empty included) ChangeState
\* and ChangeMasterValue raise no validation error and send exactly one
\* request whose list parameters are the lists joined with "," in order.
C2_EqualLengthsSendJoined ==
    /\ (Returned("ChangeState") /\ ~Mismatch)
         => /\ out.err # ErrLenState
            /\ Len(out.reqs) = 1
            /\ out.reqs[1].endpoint = "statechange.cgi"
            /\ out.reqs[1].query["ise_id"] = Join(Arg(1), s_comma)
            /\ out.reqs[1].query["new_value"] = Join(Arg(2), s_comma)
    /\ (Returned("ChangeMasterValue") /\ ~Mismatch)
         => /\ out.err # ErrLenMaster
            /\ Len(out.reqs) = 1
            /\ out.reqs[1].endpoint = "mastervaluechange.cgi"
            /\ out.reqs[1].query["device_id"] = Join(Arg(1), s_comma)
            /\ out.reqs[1].query["name"] = Join(Arg(2), s_comma)
            /\ out.reqs[1].query["value"] = Join(Arg(3), s_comma)

\* C2 amended: the same, for a Client whose base URL parses; with a base URL
\* that url.Parse rejects the call raises no validation error and sends no
\* request.
C2_EqualLengthsSendJoined_URLParses ==
    /\ ~urlParseFails(client.BaseURL) => C2_EqualLengthsSendJoined
    /\ (urlParseFails(client.BaseURL) /\ ~Mismatch
        /\ (Returned("ChangeState") \/ Returned("ChangeMasterValue")))
         => (out.err = ErrInvalidURL /\ out.reqs = <<>>)

\* ChangeState(["1","2"], ["0.20","on"]) has sent ise_id=1,2 and
\* new_value=0.20,on
C2_Witness_TwoItems ==
    /\ Returned("ChangeState")
    /\ Arg(1) = <<s_1, s_2>> /\ Arg(2) = <<s_0_20, s_on>>
    /\ Len(out.reqs) = 1
    /\ out.reqs[1].query["ise_id"] = <<49, 44, 50>>
    /\ out.reqs[1].query["new_value"] = <<48, 46, 50, 48, 44, 111, 110>>

\* C3: for every operation, a response whose status is not 200 gives an
\* error and no record, whatever the body holds, and the body is not read.
C3_Non200IsErrorWithoutRecord ==
    (pc = "done" /\ Answered /\ Status # StatusOK)
      => (out.err # Nil /\ NoRecord(out.val) /\ ~out.bodyRead /\ out.csr = <<>>)

\* GetStateList got status 500 with a well-formed state list for body
C3_Witness_Status500WithBody ==
    /\ Returned("GetStateList")
    /\ Answered /\ Status = 500
    /\ out.reqs[1].resp.body = Elem(s_stateList, <<>>, ThreeDevices)
    /\ out.err = ErrHTTP /\ out.val = NilSlice

\* C4: every request a call issues carries the Client's Token as the value
\* of sid, RevokeToken(tokenID) with tokenID other than the Token included.
C4_SidIsClientToken ==
    pc = "done" =>
      \A i \in 1..Len(out.reqs) :
        /\ "sid" \in DOMAIN out.reqs[i].query
        /\ out.reqs[i].query["sid"] = client.Token

\* C5: a call issues at most one HTTP GET, exactly one when validation and
\* URL construction succeed, and after a transport failure or a status
\* other than 200 it ends with an error and that one request.
C5_OneRequestNoRetry ==
    pc = "done" =>
      /\ Len(out.reqs) <= 1
      /\ (~Mismatch /\ ~urlParseFails(client.BaseURL)) => Len(out.reqs) = 1
      /\ (Mismatch \/ urlParseFails(client.BaseURL)) => Len(out.reqs) = 0
      /\ (out.reqs # <<>> /\ (out.reqs[1].resp.failed \/ Status # StatusOK))
           => (out.err # Nil /\ Len(out.reqs) = 1)

\* GetDeviceList met a transport failure and stopped after its one request
C5_Witness_TransportFailure ==
    /\ Returned("GetDeviceList")
    /\ Len(out.reqs) = 1
    /\ out.reqs[1].resp.failed
    /\ out.err = ErrRequestFailed

---------------------------------------------------------------------------
(* Properties of convertToUTF8.                                            *)

s_DeclOpen == <<60, 63, 120, 109, 108>>     \* "<?xml"
s_DeclClose == <<63, 62>>                   \* "?>"

\* the first 200 bytes name ISO-8859-1 or latin1, in any letter case
NamesLatin1(data) ==
    \/ Contains(ToLower(SubSeq(data, 1, Min({Len(data), SniffLen}))), s_iso_8859_1)
    \/ Contains(ToLower(SubSeq(data, 1, Min({Len(data), SniffLen}))), s_latin1)

\* the XML declaration of a document, from "<?xml" to "?>"; "" when none
DeclOf(data) ==
    IF IndexFrom(data, 1, s_DeclOpen) = 0
       \/ IndexFrom(data, IndexFrom(data, 1, s_DeclOpen), s_DeclClose) = 0
    THEN <<>>
    ELSE SubSeq(data, IndexFrom(data, 1, s_DeclOpen),
                IndexFrom(data, IndexFrom(data, 1, s_DeclOpen), s_DeclClose) + 1)

\* the encoding label of the declaration
DeclLabel(data) == procInst(s_encoding_eq, DeclOf(data))

\* C6 as stated: whenever convertToUTF8 returns without error, the bytes it
\* returns are valid UTF-8.
C6_OutputAlwaysValid ==
    (cpc = "returned" /\ cout.err = Nil) => utf8Valid(cout.data)

\* C6 amended: convertToUTF8 never returns an error; the bytes it returns
\* are valid UTF-8 when the input is valid UTF-8 or names ISO-8859-1 or
\* latin1 in its first 200 bytes; any other input comes back unchanged,
\* and so not valid UTF-8.
C6_OutputValidOrPassedThrough ==
    cpc = "returned" =>
      /\ cout.err = Nil
      /\ (utf8Valid(cin) \/ NamesLatin1(cin)) => utf8Valid(cout.data)
      /\ (~utf8Valid(cin) /\ ~NamesLatin1(cin))
           => (cout.data = cin /\ ~utf8Valid(cout.data))

\* a Latin-1 document that declares iso-8859-1 has come back as valid UTF-8
C6_Witness_Transcoded ==
    /\ cpc = "returned"
    /\ cin = Decl(s_iso_8859_1) \o Elem(s_v, <<>>, <<233>>)
    /\ ~utf8Valid(cin)
    /\ cout.err = Nil /\ utf8Valid(cout.data) /\ cout.data # cin

\* C7: a byte sequence that is valid UTF-8, the empty one and those that
\* name ISO-8859-1 or latin1 in their first 200 bytes included, comes back
\* byte for byte, without error.
C7_ValidInputUnchanged ==
    (cpc = "returned" /\ utf8Valid(cin)) => (cout.data = cin /\ cout.err = Nil)

\* a valid UTF-8 document that declares ISO-8859-1 and holds a two-byte
\* rune has come back unchanged
C7_Witness_ValidWithLatin1Label ==
    /\ cpc = "returned"
    /\ cin = Decl(s_ISO_8859_1) \o Elem(s_v, <<>>, <<195, 169>>)
    /\ utf8Valid(cin) /\ NamesLatin1(cin)
    /\ cout.data = cin

\* C8: an input that is not valid UTF-8 and names iso-8859-1 or latin1 (in
\* any letter case) in its first 200 bytes comes back as valid UTF-8 whose
\* declaration no longer holds the Latin-1 name and is labelled UTF-8 where
\* the input's declaration was labelled with that name.
C8_Latin1LabelRewritten ==
    (cpc = "returned" /\ ~utf8Valid(cin) /\ NamesLatin1(cin)) =>
      /\ cout.err = Nil
      /\ utf8Valid(cout.data)
      /\ ~Contains(ToLower(DeclOf(cout.data)), s_iso_8859_1)
      /\ ~Contains(ToLower(DeclOf(cout.data)), s_latin1)
      /\ ToLower(DeclLabel(cin)) \in {s_iso_8859_1, s_latin1}
           => EqualFold(DeclLabel(cout.data), s_utf_8)

---------------------------------------------------------------------------
(* Properties of the decoded results and of the error messages.            *)

\* the root element of the struct an operation of part_001 decodes into;
\* every operation of main.go decodes into APIResponse (<result>)
SchemaRoot(pkg, op) ==
    IF pkg = "homematic" THEN s_result
    ELSE IF op = "GetVersion" THEN s_version
    ELSE IF op \in {"GetDeviceList", "GetMasterValue"} THEN s_deviceList
    ELSE IF op \in {"GetStateList", "GetState"} THEN s_stateList
    ELSE IF op = "GetDeviceTypes" THEN s_deviceTypes
    ELSE IF op = "GetProgramList" THEN s_programList
    ELSE IF op = "GetRoomList" THEN s_roomList
    ELSE IF op = "GetFunctionList" THEN s_functionList
    ELSE IF op \in {"GetSystemVariableList", "GetSystemVariable"} THEN s_systemVariables
    ELSE s_result

\* the document a Client of package pkg decodes from a response body
DecodedBody(pkg, op, body) ==
    IF pkg = "homematic" THEN xmlUnmarshal(body, s_result)
    ELSE Decode(convertToUTF8(body).data, SchemaRoot(pkg, op))

\* the call got status 200 and read a body
GotBody == Answered /\ Status = StatusOK /\ ~out.reqs[1].resp.readFails
Body == out.reqs[1].resp.body

\* a message holds the words of `phrase` in a row
MsgContains(msg, phrase) == Contains(msg, phrase)

\* C9: GetStateList with a deviceID other than "" and a response that
\* decodes returns, without error, exactly the devices of the response whose
\* IseID is deviceID, in the order of the response; when there is none the
\* collection is empty, not nil.
C9_StateListFiltered ==
    (/\ Returned("GetStateList")
     /\ Arg(1) # <<>>
     /\ GotBody
     /\ DecodedBody(client.pkg, "GetStateList", Body).ok)
      => /\ out.err = Nil
         /\ out.val.kind = "slice"
         /\ out.val.items =
              SelectSeq(Items(DecodedBody(client.pkg, "GetStateList", Body), s_device),
                        LAMBDA d : d.IseID = Arg(1))
         /\ ~out.val.nil

\* C10: for every operation, the error after a status other than 200 holds
\* "HTTP error", and the error after a body that fails XML decoding holds
\* "failed to parse XML"; GetVersion is no exception.
C10_ErrorsClassifiable ==
    /\ (pc = "done" /\ Answered /\ Status # StatusOK)
         => MsgContains(out.err, <<"HTTP", "error">>)
    /\ (/\ pc = "done"
        /\ GotBody
        /\ ~DecodedBody(client.pkg, call.op, Body).ok)
         => MsgContains(out.err, <<"failed", "to", "parse", "XML">>)

---------------------------------------------------------------------------
(* Properties of the decode path.                                          *)

\* the charset names charsetReader and the Decoder accept, in lower case
SupportedCharsets == {s_utf_8, s_iso_8859_1, s_latin1, s_windows_1252, s_cp1252}

\* the body declares a charset, and it is none of the supported ones
DeclaresUnsupported(body) ==
    /\ DeclLabel(body) # <<>>
    /\ ToLower(DeclLabel(body)) \notin SupportedCharsets

\* C11: a call that reads a body whose declaration names a charset other
\* than UTF-8, iso-8859-1, latin1, windows-1252 and cp1252 (in any letter
\* case) returns a decode error and no record; in part_001 the Decoder has
\* handed that charset to charsetReader, which answered "unsupported
\* charset".
C11_UnsupportedCharsetIsDecodeError ==
    (pc = "done" /\ GotBody /\ DeclaresUnsupported(Body)) =>
      /\ out.err \in {ErrParseXML, ErrParseVersionXML}
      /\ NoRecord(out.val)
      /\ client.pkg = "part_001" =>
           /\ out.csr = <<DeclLabel(Body)>>
           /\ charsetReader(DeclLabel(Body), <<>>).err
                = <<"unsupported", "charset", ":", "%s">>

\* GetStateList of part_001 read a state list declared as koi8-r
C11_Witness_Koi8 ==
    /\ Returned("GetStateList")
    /\ client.pkg = "part_001"
    /\ GotBody
    /\ Body = Latin1StateList(s_koi8_r)
    /\ out.csr = <<s_koi8_r>>
    /\ out.err = ErrParseXML /\ out.val = NilSlice

\* C12: GetSystemVariable, on a response that decodes, returns "system
\* variable not found" and a nil record when the response holds no
\* systemVariable element, and otherwise the first systemVariable element of
\* the response and a nil error.
C12_FirstSystemVariableOrNotFound ==
    (/\ Returned("GetSystemVariable")
     /\ GotBody
     /\ DecodedBody(client.pkg, "GetSystemVariable", Body).ok)
      => IF KidsNamed(DecodedBody(client.pkg, "GetSystemVariable", Body),
                      s_systemVariable) = <<>>
         THEN out.err = ErrNotFound /\ out.val = NilPtr
         ELSE /\ out.err = Nil
              /\ out.val = Ptr(ItemOf(KidsNamed(
                     DecodedBody(client.pkg, "GetSystemVariable", Body),
                     s_systemVariable)[1]))

\* GetSystemVariable of part_001 read two system variables, A (ise_id 2)
\* then B (ise_id 1), and returned A
C12_Witness_FirstOfTwo ==
    /\ Returned("GetSystemVariable")
    /\ client.pkg = "part_001"
    /\ GotBody
    /\ Body = Elem(s_systemVariables, <<>>, Payload(s_systemVariables))
    /\ out.err = Nil
    /\ out.val = Ptr([Name |-> s_A, IseID |-> s_2])

---------------------------------------------------------------------------
(* Concurrent callers of one Client.  A call reads the Client's fields     *)
(* while it builds its request (url.Parse of c.BaseURL, q.Set of c.Token); *)
(* the transport answers later; other goroutines run in between.           *)

NumGoroutines == 2      \* goroutines that share the Client
Goroutines == 1..NumGoroutines

\* a variant in which RevokeToken stores the token it revoked
ClientAfter_RevokeWrites(c, cl) ==
    IF cl.op = "RevokeToken" THEN [c EXCEPT !.Token = cl.args[1]] ELSE c

\* the Client after a call of a public method: no method assigns to a field
\* of c
ClientAfter(c, cl) == c

\* the method cl.op of a Client c with the arguments cl.args, the transport
\* answering resp
Invoke(c, cl, resp) ==
    IF c.pkg = "part_001"
    THEN CASE cl.op = "GetVersion" -> GetVersion(c, resp)
           [] cl.op = "GetDeviceList" ->
                GetDeviceList(c, cl.args[1], cl.args[2], cl.args[3], resp)
           [] cl.op = "GetDeviceTypes" -> GetDeviceTypes(c, resp)
           [] cl.op = "GetStateList" ->
                GetStateList(c, cl.args[1], cl.args[2], cl.args[3], resp)
           [] cl.op = "GetState" ->
                GetState(c, cl.args[1], cl.args[2], cl.args[3], resp)
           [] cl.op = "ChangeState" -> ChangeState(c, cl.args[1], cl.args[2], resp)
           [] cl.op = "GetProgramList" -> GetProgramList(c, resp)
           [] cl.op = "RunProgram" -> RunProgram(c, cl.args[1], cl.args[2], resp)
           [] cl.op = "ChangeProgramActions" ->
                ChangeProgramActions(c, cl.args[1], cl.args[2], cl.args[3], resp)
           [] cl.op = "GetRoomList" -> GetRoomList(c, resp)
           [] cl.op = "GetFunctionList" -> GetFunctionList(c, resp)
           [] cl.op = "GetSystemVariableList" ->
                GetSystemVariableList(c, cl.args[1], resp)
           [] cl.op = "GetSystemVariable" ->
                GetSystemVariable(c, cl.args[1], cl.args[2], resp)
           [] cl.op = "RegisterToken" -> RegisterToken(c, cl.args[1], resp)
           [] cl.op = "RevokeToken" -> RevokeToken(c, cl.args[1], resp)
           [] cl.op = "GetMasterValue" ->
                GetMasterValue(c, cl.args[1], cl.args[2], resp)
           [] cl.op = "ChangeMasterValue" ->
                ChangeMasterValue(c, cl.args[1], cl.args[2], cl.args[3], resp)
    ELSE CASE cl.op = "GetVersion" -> GetVersion_hm(c, resp)
           [] cl.op = "GetDeviceList" ->
                GetDeviceList_hm(c, cl.args[1], cl.args[2], cl.args[3], resp)
           [] cl.op = "GetDeviceTypes" -> GetDeviceTypes_hm(c, resp)
           [] cl.op = "GetStateList" ->
                GetStateList_hm(c, cl.args[1], cl.args[2], cl.args[3], resp)
           [] cl.op = "GetState" ->
                GetState_hm(c, cl.args[1], cl.args[2], cl.args[3], resp)
           [] cl.op = "ChangeState" -> ChangeState_hm(c, cl.args[1], cl.args[2], resp)
           [] cl.op = "GetProgramList" -> GetProgramList_hm(c, resp)
           [] cl.op = "RunProgram" -> RunProgram_hm(c, cl.args[1], cl.args[2], resp)
           [] cl.op = "ChangeProgramActions" ->
                ChangeProgramActions_hm(c, cl.args[1], cl.args[2], cl.args[3], resp)
           [] cl.op = "GetRoomList" -> GetRoomList_hm(c, resp)
           [] cl.op = "GetFunctionList" -> GetFunctionList_hm(c, resp)
           [] cl.op = "GetSystemVariableList" ->
                GetSystemVariableList_hm(c, cl.args[1], resp)
           [] cl.op = "GetSystemVariable" ->
                GetSystemVariable_hm(c, cl.args[1], cl.args[2], resp)
           [] cl.op = "RegisterToken" -> RegisterToken_hm(c, cl.args[1], resp)
           [] cl.op = "RevokeToken" -> RevokeToken_hm(c, cl.args[1], resp)
           [] cl.op = "GetMasterValue" ->
                GetMasterValue_hm(c, cl.args[1], cl.args[2], resp)
           [] cl.op = "ChangeMasterValue" ->
                ChangeMasterValue_hm(c, cl.args[1], cl.args[2], cl.args[3], resp)

\* the calls the goroutines make: methods that go through makeRawRequest,
\* through makeRequest, that fail validation, and RevokeToken, whose sid is
\* not the Client's token
ConcCalls ==
    {Call("GetVersion", <<>>),
     Call("GetDeviceList", <<<<s_1, s_2>>, TRUE, FALSE>>),
     Call("GetStateList", <<s_1, FALSE, TRUE>>),
     Call("ChangeState", <<<<s_1, s_2>>, <<s_0_20, s_on>>>>),
     Call("GetSystemVariable", <<s_1, FALSE>>),
     Call("RevokeToken", <<s_t2>>),
     Call("ChangeMasterValue", <<<<s_1>>, <<s_n>>, <<>>>>)}

\* the transport's answers to a method of package pkg: the response of the
\* method's schema with status 200, or status 500; the device lists change
\* from one snapshot to the next
ConcResponses(pkg, op) ==
    {Resp(FALSE, StatusOK, FALSE,
          Elem(SchemaRoot(pkg, op), <<>>, Payload(SchemaRoot(pkg, op)))),
     Resp(FALSE, 500, FALSE, <<>>)}
    \cup (IF op \in {"GetDeviceList", "GetStateList"}
          THEN {Resp(FALSE, StatusOK, FALSE,             \* another snapshot
                     Elem(SchemaRoot(pkg, op), <<>>, Dev(s_3, s_B)))}
          ELSE {})

NoResp == Resp(TRUE, 0, FALSE, <<>>)
NoClient == NewClient("none", "", <<>>)

\* a goroutine: where it stands, its call, the Client fields it read, the
\* transport's answer and the outcome
Goroutine(at, cl, c, resp, o) ==
    [pc |-> at, call |-> cl, c |-> c, resp |-> resp, out |-> o]

InitConc ==
    /\ client \in {NewClient(p, "https://192.168.1.100", s_t1) : p \in Pkgs}
    /\ calls = [g \in Goroutines |-> Goroutine("idle", NoCall, NoClient, NoResp, NoOutcome)]
    /\ pc = "off"
    /\ call = NoCall
    /\ out = NoOutcome
    /\ cin = <<>>
    /\ cout = NoConv
    /\ cpc = "off"

\* goroutine g calls a method: the request is built from the Client's
\* fields as they are now
Issue(g) ==
    /\ calls[g].pc = "idle"
    /\ \E cl \in ConcCalls :
         calls' = [calls EXCEPT ![g] = Goroutine("issued", cl, client, NoResp, NoOutcome)]
    /\ UNCHANGED <<client, pc, call, out, cin, cout, cpc>>

\* the transport answers goroutine g and its call returns
Complete(g) ==
    /\ calls[g].pc = "issued"
    /\ \E resp \in ConcResponses(client.pkg, calls[g].call.op) :
         calls' = [calls EXCEPT ![g] =
                     Goroutine("done", calls[g].call, calls[g].c, resp,
                               Invoke(calls[g].c, calls[g].call, resp))]
    /\ client' = ClientAfter(client, calls[g].call)
    /\ UNCHANGED <<pc, call, out, cin, cout, cpc>>

NextConc == \E g \in Goroutines : Issue(g) \/ Complete(g)

SpecConc == InitConc /\ [][NextConc]_vars

\* C13: no call changes the Client, and whatever the interleaving of the
\* goroutines, the request and the result of every finished call are those
\* of the same call made alone on the Client with the same transport answer.
C13_ConcurrentCallsAsAlone ==
    /\ [][client' = client]_vars
    /\ [](\A g \in Goroutines :
            calls[g].pc = "done"
              => calls[g].out = Invoke(client, calls[g].call, calls[g].resp))

\* goroutine 1 has finished GetStateList while goroutine 2 is inside
\* RevokeToken("t2"): the request of goroutine 1 carries the Client's token
C13_Witness_Overlap ==
    /\ calls # <<>>
    /\ calls[1].pc = "done" /\ calls[1].call.op = "GetStateList"
    /\ calls[1].out.err = Nil
    /\ calls[1].out.reqs[1].query["sid"] = s_t1
    /\ calls[2].pc = "issued" /\ calls[2].call.op = "RevokeToken"

---------------------------------------------------------------------------
(* Properties of the query parameters.                                     *)

\* the query of the request the call sent
Query == out.reqs[1].query
Sent == pc = "done" /\ out.reqs # <<>>

\* key is sent with value v when flag holds and is absent otherwise
OneOrAbsent(flag, key) ==
    IF flag THEN key \in DOMAIN Query /\ Query[key] = <<49>>
    ELSE key \notin DOMAIN Query

\* key is sent as "true" or "false" for a pointer to flag, absent for nil
BoolOrAbsent(ptr, key) ==
    IF ptr = <<>> THEN key \notin DOMAIN Query
    ELSE /\ key \in DOMAIN Query
         /\ Query[key] = (IF ptr[1] THEN <<116, 114, 117, 101>>
                          ELSE <<102, 97, 108, 115, 101>>)

\* C14: in every request sent, show_internal and show_remote (GetDeviceList,
\* GetStateList) and cond_check (RunProgram) are "1" for true and absent for
\* false; text (GetSystemVariableList, GetSystemVariable) is always sent, as
\* "true" or "false"; active and visible (ChangeProgramActions) are "true" or
\* "false" for a non-nil pointer and absent for nil.
C14_BooleansPerEndpoint ==
    Sent =>
      /\ call.op \in {"GetDeviceList", "GetStateList"}
           => /\ OneOrAbsent(Arg(2), "show_internal")
              /\ OneOrAbsent(Arg(3), "show_remote")
      /\ call.op = "RunProgram" => OneOrAbsent(Arg(2), "cond_check")
      /\ call.op = "GetSystemVariableList" => BoolOrAbsent(<<Arg(1)>>, "text")
      /\ call.op = "GetSystemVariable" => BoolOrAbsent(<<Arg(2)>>, "text")
      /\ call.op = "ChangeProgramActions"
           => /\ BoolOrAbsent(Arg(2), "active")
              /\ BoolOrAbsent(Arg(3), "visible")

\* ChangeProgramActions(programID, &false, nil) has sent active=false and no
\* visible
C14_Witness_ActiveFalseVisibleNil ==
    /\ Sent
    /\ call.op = "ChangeProgramActions"
    /\ Arg(2) = <<FALSE>> /\ Arg(3) = <<>>
    /\ Query["active"] = s_false
    /\ "visible" \notin DOMAIN Query

---------------------------------------------------------------------------
(* Properties of calls that follow or overlap one another.                 *)

Finished(g) == calls[g].pc = "done"

\* the methods that return a list, and the element their list is read from
ListOps ==
    {"GetDeviceList", "GetDeviceTypes", "GetStateList", "GetState",
     "GetProgramList", "GetRoomList", "GetFunctionList",
     "GetSystemVariableList", "GetMasterValue"}
ListElem(op) ==
    CASE op = "GetDeviceTypes" -> s_deviceType
      [] op = "GetProgramList" -> s_program
      [] op = "GetRoomList" -> s_room
      [] op = "GetFunctionList" -> s_function
      [] op = "GetSystemVariableList" -> s_systemVariable
      [] OTHER -> s_device

\* the records held by the response goroutine g got to its own request
OwnItems(g) ==
    IF calls[g].resp.failed \/ calls[g].resp.status # StatusOK THEN <<>>
    ELSE Items(DecodedBody(client.pkg, calls[g].call.op, calls[g].resp.body),
               ListElem(calls[g].call.op))

\* C15: whatever calls were made before or beside it on the same Client, a
\* list-returning call returns only records of the response to its own
\* request, and two calls with the same arguments and the same response
\* return the same.
C15_OwnSnapshotOnly ==
    \A g \in DOMAIN calls :
      (Finished(g) /\ calls[g].call.op \in ListOps) =>
        /\ \A i \in 1..Len(calls[g].out.val.items) :
             \E j \in 1..Len(OwnItems(g)) :
               calls[g].out.val.items[i] = OwnItems(g)[j]
        /\ \A h \in DOMAIN calls :
             (/\ Finished(h)
              /\ calls[h].call = calls[g].call
              /\ calls[h].resp = calls[g].resp)
               => calls[h].out = calls[g].out

\* goroutine 1 got three devices from GetDeviceList; goroutine 2 then got
\* the one device of another snapshot, and returned that device alone
C15_Witness_TwoSnapshots ==
    /\ calls # <<>>
    /\ Finished(1) /\ calls[1].call.op = "GetDeviceList"
    /\ Len(calls[1].out.val.items) = 3
    /\ Finished(2) /\ calls[2].call.op = "GetDeviceList"
    /\ calls[2].out.val.items = <<[Name |-> s_B, IseID |-> s_3]>>

---------------------------------------------------------------------------
(* Properties of the errors returned.                                      *)

\* every stage of the call went through: validation, URL construction, the
\* GET, status 200, reading the body, normalisation, XML decoding, and for
\* GetSystemVariable a systemVariable element in the result
AllStagesPassed ==
    /\ ~Mismatch
    /\ ~urlParseFails(client.BaseURL)
    /\ out.reqs # <<>>
    /\ GotBody
    /\ client.pkg = "part_001" => convertToUTF8(Body).err = Nil
    /\ DecodedBody(client.pkg, call.op, Body).ok
    /\ call.op = "GetSystemVariable"
         => KidsNamed(DecodedBody(client.pkg, call.op, Body), s_systemVariable) # <<>>

\* C16: a call returns a nil error exactly when every stage of it went
\* through; when a stage failed it returns an error together with the zero
\* value of its result (a nil slice, "", a nil pointer).
C16_NilErrorIffAllStagesPassed ==
    pc = "done" =>
      /\ out.err = Nil <=> AllStagesPassed
      /\ out.err # Nil => NoRecord(out.val)

\* GetSystemVariable of part_001 passed every stage up to the decoding and
\* found no systemVariable element
C16_Witness_LastStageFails ==
    /\ Returned("GetSystemVariable")
    /\ client.pkg = "part_001"
    /\ GotBody
    /\ Body = EmptyElem(s_systemVariables, <<>>)
    /\ out.err = ErrNotFound /\ out.val = NilPtr

---------------------------------------------------------------------------
(* Properties of the schemas.                                              *)

\* the root element the operation's response is documented to have:
\* deviceList, stateList, programList, roomList, functionList,
\* systemVariables, deviceTypes, version, or result
ExpectedRoot(op) == SchemaRoot("part_001", op)

\* body is a well-formed document whose root element is named root
WellFormedAs(body, root) == Decode(convertToUTF8(body).data, root).ok

\* C17: a call that reads a body which is not a well-formed document with
\* the root element of the operation's own schema (another root, or
\* malformed XML) returns a parse error and no record, whatever else the
\* body holds.
C17_SchemaFixedByOperation ==
    (pc = "done" /\ GotBody /\ ~WellFormedAs(Body, ExpectedRoot(call.op)))
      => /\ out.err \in {ErrParseXML, ErrParseVersionXML}
         /\ NoRecord(out.val)

\* the key is sent iff the list is not empty, and then with the elements of
\* the list joined by ","
JoinedOrAbsent(list, key) ==
    IF list = <<>> THEN key \notin DOMAIN Query
    ELSE key \in DOMAIN Query /\ Query[key] = Join(list, <<44>>)

\* C18: in every request sent, GetDeviceList (device_id), GetState
\* (device_id, channel_id, datapoint_id) and GetMasterValue (device_id,
\* requested_names) send a key iff its list is not empty, with the list
\* joined by ","; GetStateList sends its deviceID under no key and returns
\* the devices of the decoded list whose IseID is deviceID.
C18_OptionalListsAndClientSideFilter ==
    Sent =>
      /\ call.op = "GetDeviceList" => JoinedOrAbsent(Arg(1), "device_id")
      /\ call.op = "GetState"
           => /\ JoinedOrAbsent(Arg(1), "device_id")
              /\ JoinedOrAbsent(Arg(2), "channel_id")
              /\ JoinedOrAbsent(Arg(3), "datapoint_id")
      /\ call.op = "GetMasterValue"
           => /\ JoinedOrAbsent(Arg(1), "device_id")
              /\ JoinedOrAbsent(Arg(2), "requested_names")
      /\ call.op = "GetStateList"
           => /\ DOMAIN Query \subseteq {"sid", "show_internal", "show_remote"}
              /\ (/\ Arg(1) # <<>>
                  /\ GotBody
                  /\ DecodedBody(client.pkg, call.op, Body).ok)
                   => out.val.items =
                        SelectSeq(Items(DecodedBody(client.pkg, call.op, Body), s_device),
                                  LAMBDA d : d.IseID = Arg(1))

---------------------------------------------------------------------------
(* Properties of the decode path of part_001: convertToUTF8, then the      *)
(* Decoder with charsetReader.                                             *)

\* convertToUTF8 transcodes the body from ISO-8859-1
Transcoded(body) == ~utf8Valid(body) /\ NamesLatin1(body)

\* C19: a body that convertToUTF8 has transcoded from ISO-8859-1 is not
\* transcoded again: the Decoder hands no charset to charsetReader, whether
\* the declaration says ISO-8859-1, iso-8859-1, Iso-8859-1 or latin1.
C19_TranscodedAtMostOnce ==
    (/\ pc = "done"
     /\ client.pkg = "part_001"
     /\ GotBody
     /\ Transcoded(Body))
      => out.csr = <<>>

\* what follows the XML declaration of a document; the whole document when
\* it has none
AfterDecl(data) ==
    IF DeclOf(data) = <<>> THEN data
    ELSE SubSeq(data,
                IndexFrom(data, IndexFrom(data, 1, s_DeclOpen), s_DeclClose) + 2,
                Len(data))

\* C20: when convertToUTF8 transcodes a document from ISO-8859-1, what
\* follows the declaration comes back as the same characters, each byte
\* turned into the UTF-8 form of its ISO-8859-1 character, also where the
\* content holds the text ISO-8859-1 or iso-8859-1.
C20_ContentKeptOutsideDeclaration ==
    (cpc = "returned" /\ Transcoded(cin))
      => AfterDecl(cout.data) = ISO8859_1_From(AfterDecl(cin), 1)

\* the number of comma-separated items of a parameter value; none in ""
ItemCount(s) ==
    IF s = <<>> THEN 0
    ELSE Cardinality({i \in 1..Len(s) : s[i] = 44}) + 1

\* C21: in every request sent by ChangeState or ChangeMasterValue each list
\* parameter holds as many comma-separated items as the argument lists have
\* elements, also when an element is empty or holds a comma.
C21_ItemCountsMatchLengths ==
    Sent =>
      /\ call.op = "ChangeState"
           => /\ ItemCount(Query["ise_id"]) = Len(Arg(1))
              /\ ItemCount(Query["new_value"]) = Len(Arg(2))
      /\ call.op = "ChangeMasterValue"
           => /\ ItemCount(Query["device_id"]) = Len(Arg(1))
              /\ ItemCount(Query["name"]) = Len(Arg(2))
              /\ ItemCount(Query["value"]) = Len(Arg(3))

=============================================================================
